---- MODULE Spec2Model ----
(***************************************************************************)
(* A model of the bulk namespace-deletion engine, the throttle policy and  *)
(* message reconciliation of inbox/models/util.py.                         *)
(***************************************************************************)
EXTENDS Integers, Sequences, FiniteSets, TLC

(***************************************************************************)
(* Bounds of the model                                                     *)
(***************************************************************************)
\* accounts (and namespaces) on the shard
NumAccounts == 2
\* a table of one account starts with at most MaxChunks * CHUNK_SIZE + 1 rows
MaxChunks == 1
\* runs of the deletion procedure the operator makes one after the other
MaxRuns == 2
\* statements the database fails in one behaviour
MaxFaults == 1
\* distinct received_date values of the messages of a namespace
MaxDates == 2

(***************************************************************************)
(* Program constants                                                       *)
(***************************************************************************)
CHUNK_SIZE == 1000
\* the LIMIT of the batched DELETE statements
DELETE_LIMIT == 2000
\* gevent.sleep(60)
THROTTLE_SLEEP == 60
backup_start_hour_utc == 8
backup_duration_hours == 9

Accounts == 1 .. NumAccounts

\* the account row once db_session.delete(account) is committed
DeletedAccount ==
    [present |-> FALSE, is_deleted |-> FALSE, sync_should_run |-> FALSE,
     eas |-> FALSE]

\* Account ids and namespace ids are two independent auto-increment columns:
\* the namespace of account a has another number than a whenever it can.
NamespaceOf(a) == NumAccounts + 1 - a
Procs == {1, 2}

Min(a, b) == IF a < b THEN a ELSE b

(***************************************************************************)
(* The database                                                            *)
(***************************************************************************)
VARIABLES
    acct,        \* account table: id -> row (present = the row exists)
    nsrow,       \* namespace table: namespace id -> the row exists
    rows,        \* table -> value of its filter column -> number of rows
    hb,          \* liveness tracker: account id -> a heartbeat status is kept
    snapshot,    \* the list get_accounts_to_delete returned last
    snapStatus,  \* "none", "ok", or "raised" (the last call raised)
    job,         \* proc -> the frame of its deletion job
    runs,        \* calls the operator has made
    faults,      \* statements the database has failed
    crashedAcct, \* the account whose deletion a process death interrupted, or 0
    tw,          \* check_throttle: its inputs and its result
    rc,          \* reconcile_message: the message store, the input, the result
    msgdate,     \* namespace id -> received_date -> number of its messages
    pt,          \* purge_transactions: the transaction log and the frame
    api,         \* a call of a query function: database, arguments, result
    bakery       \* the process-wide cache of baked queries

\* the variables the deletion job never reads or writes
ext == <<pt, api, bakery>>
vars == <<acct, nsrow, rows, hb, msgdate, snapshot, snapStatus, job, runs,
          faults, crashedAcct, tw, rc, ext>>
dbvars == <<acct, nsrow, rows, hb, msgdate>>

\* delete_namespace, lines 173-175: tables filtered by namespace_id
BatchNamespaceTables ==
    <<"message", "block", "thread", "transaction", "actionlog", "contact",
      "event", "dataprocessingcache">>
\* lines 179-182
ImapTables == <<"imapuid", "imapfoldersyncstatus", "imapfolderinfo">>
\* lines 183-185
EasTables == <<"easuid", "easfoldersyncstatus">>
\* lines 201-205
SingleTables == <<"category", "calendar", "folder", "label", "namespace">>

Range(s) == {s[i] : i \in 1 .. Len(s)}
RowTables ==
    Range(BatchNamespaceTables) \cup Range(ImapTables) \cup Range(EasTables)
        \cup (Range(SingleTables) \ {"namespace"})

Filter(t, c, i) == [table |-> t, column |-> c, id |-> i]

\* delete_namespace, lines 171-185: the ordered filters of the batched tables
BatchFilters(account_id, namespace_id, eas) ==
    [i \in 1 .. Len(BatchNamespaceTables) |->
        Filter(BatchNamespaceTables[i], "namespace_id", namespace_id)]
    \o (IF ~eas
        THEN [i \in 1 .. Len(ImapTables) |->
                Filter(ImapTables[i], "account_id", account_id)]
        ELSE <<Filter("easuid", "easaccount_id", account_id),
               Filter("easfoldersyncstatus", "account_id", account_id)>>)

\* the filters of the single-statement tables with folder and label filtered
\* by the namespace id
SingleFiltersByNamespace(account_id, namespace_id) ==
    <<Filter("category", "namespace_id", namespace_id),
      Filter("calendar", "namespace_id", namespace_id),
      Filter("folder", "account_id", namespace_id),
      Filter("label", "account_id", namespace_id),
      Filter("namespace", "id", namespace_id)>>

\* delete_namespace, lines 200-205: the filters of the single-statement tables
SingleFilters(account_id, namespace_id) ==
    <<Filter("category", "namespace_id", namespace_id),
      Filter("calendar", "namespace_id", namespace_id),
      Filter("folder", "account_id", account_id),
      Filter("label", "account_id", account_id),
      Filter("namespace", "id", namespace_id)>>

\* SELECT COUNT(*) FROM table WHERE column = id
CountRows(f) ==
    IF f.table = "namespace" THEN (IF nsrow[f.id] THEN 1 ELSE 0)
    ELSE rows[f.table][f.id]

\* _batch_delete, line 243
Batches(count) == (count + CHUNK_SIZE - 1) \div CHUNK_SIZE

(***************************************************************************)
(* check_throttle                                                          *)
(***************************************************************************)
\* what requests.get does: a 200, another status code, or an exception
HttpOutcomes == {"200", "non200", "unreachable"}
Hours == 0 .. 23
\* the hours the deletion job is followed at: the last hour before the backup
\* window, its first and last hour, and the first hour after it
JobHours ==
    {(backup_start_hour_utc + 23) % 24, backup_start_hour_utc,
     (backup_start_hour_utc + backup_duration_hours + 23) % 24,
     (backup_start_hour_utc + backup_duration_hours) % 24}

\* the window test without its part after midnight
InBackupWindowSameDay(start, duration, hour) ==
    hour >= start /\ hour < Min(start + duration, 24)

\* check_throttle, lines 305-325, its window test read as a function of the
\* start hour, the duration and now.hour
InBackupWindow(start, duration, hour) ==
    LET backup_end_hour_utc == (start + duration) % 24
    IN  IF hour >= start /\ hour < Min(start + duration, 24)
        THEN TRUE
        ELSE IF /\ backup_end_hour_utc <= start
                /\ hour < backup_end_hour_utc
                /\ hour >= backup_end_hour_utc - duration
        THEN TRUE
        ELSE FALSE

\* check_throttle, lines 295-325, with the window as parameters: "raise" when
\* requests.get raises (nothing in check_throttle catches it), else "true" or
\* "false". The replica-lag request is made first.
CheckThrottleWindow(start, duration, lag, cpu, hour) ==
    IF lag = "unreachable" \/ cpu = "unreachable" THEN "raise"
    ELSE IF lag # "200" \/ cpu # "200" THEN "true"
    ELSE IF InBackupWindow(start, duration, hour) THEN "true"
    ELSE "false"

\* check_throttle as the code has it, lines 305-306
check_throttle(lag, cpu, hour) ==
    CheckThrottleWindow(backup_start_hour_utc, backup_duration_hours,
                        lag, cpu, hour)

(***************************************************************************)
(* The deletion job: get_accounts_to_delete, delete_marked_accounts,       *)
(* delete_namespace, _batch_delete                                         *)
(***************************************************************************)
NoRead == [read |-> FALSE, present |-> FALSE, is_deleted |-> FALSE,
           sync_should_run |-> FALSE]
NoLast == [done |-> FALSE, account_id |-> 0, gone |-> FALSE, visited |-> {},
           removed |-> 0, raised |-> FALSE, cleared |-> FALSE,
           counted |-> FALSE]

\* A frame before its first call. The fields after deleted_count are history:
\* what the verification read (seen), the tables the current delete_namespace
\* has looked at (visited), the rows it removed (removed), the throttle answer
\* the last executed DELETE followed (stmtCheck), the summary of the last
\* finished iteration (last), the iterations begun (processed) and the
\* accounts for which the database failed a table statement (failedTable) or
\* another statement (failedOther), and the received dates of the messages
\* the current delete_namespace has deleted (deleted_dates). lastCheck
\* is what the check_throttle call before the coming statement returned and
\* paused the time the job slept after it.
IdleJob ==
    [pc |-> "idle", mode |-> "none", throttle |-> FALSE, dry_run |-> FALSE,
     ids |-> <<>>, idx |-> 0, account_id |-> 0, namespace_id |-> 0,
     filters |-> <<>>, fi |-> 0, batches |-> 0, bi |-> 0,
     lastCheck |-> "none", paused |-> 0, deleted_count |-> 0,
     error |-> FALSE,
     seen |-> NoRead, visited |-> {}, removed |-> 0, stmtCheck |-> "none",
     last |-> NoLast, processed |-> 0, failedTable |-> {},
     failedOther |-> {}, deleted_dates |-> {}]
OffJob == [IdleJob EXCEPT !.pc = "off"]

Quiet == \A p \in Procs : job[p].pc \in {"idle", "off"}

Summary(j, raised, cleared) ==
    [done |-> TRUE, account_id |-> j.ids[j.idx][1],
     gone |-> j.seen.read /\ ~j.seen.present,
     visited |-> j.visited, removed |-> j.removed, raised |-> raised,
     cleared |-> cleared, counted |-> cleared]

\* the `continue` statements of delete_marked_accounts and the end of its
\* loop body: on to the next pair
NextPair(j, raised, cleared) ==
    [j EXCEPT !.pc = "dma_verify", !.idx = @ + 1, !.lastCheck = "none",
              !.paused = 0, !.last = Summary(j, raised, cleared)]

\* the exception is not caught: it leaves delete_marked_accounts
RaiseUncaught(j) ==
    [j EXCEPT !.pc = "idle", !.error = TRUE, !.lastCheck = "none",
              !.paused = 0]

\* An exception inside delete_namespace: delete_marked_accounts catches it at
\* lines 130-133 and continues; a direct caller gets it.
Raise(j) ==
    IF j.mode = "dma" THEN NextPair(j, TRUE, FALSE)
    ELSE [j EXCEPT !.pc = "idle", !.error = TRUE, !.lastCheck = "none",
                   !.paused = 0]

\* get_accounts_to_delete, lines 96-101: the accounts the comprehension keeps
SnapshotKeeps(a) == acct[a].present /\ acct[a].is_deleted

RECURSIVE SnapshotFrom(_)
SnapshotFrom(a) ==
    IF a > NumAccounts THEN <<>>
    ELSE (IF SnapshotKeeps(a) THEN <<(<<a, NamespaceOf(a)>>)>> ELSE <<>>)
         \o SnapshotFrom(a + 1)

\* acc.namespace is None when the namespace row is gone, and acc.namespace.id
\* then raises
get_accounts_to_delete ==
    /\ Quiet
    /\ IF \E a \in Accounts : SnapshotKeeps(a) /\ ~nsrow[NamespaceOf(a)]
       THEN /\ snapStatus' = "raised"
            /\ UNCHANGED snapshot
       ELSE /\ snapStatus' = "ok"
            /\ snapshot' = SnapshotFrom(1)
    /\ UNCHANGED <<dbvars, job, runs, faults, crashedAcct, tw, rc, ext>>

\* delete_marked_accounts(shard_id, ids_to_delete, throttle, dry_run) is called
StartDeleteMarkedAccounts(p, ids, th, dr) ==
    /\ job[p].pc = "idle"
    /\ runs < MaxRuns
    /\ runs' = runs + 1
    /\ job' = [job EXCEPT ![p] =
                 [IdleJob EXCEPT !.pc = "dma_verify", !.mode = "dma",
                                 !.throttle = th, !.dry_run = dr,
                                 !.ids = ids, !.idx = 1]]
    /\ UNCHANGED <<dbvars, snapshot, snapStatus, faults, crashedAcct, tw, rc, ext>>

\* delete_namespace(account_id, namespace_id, throttle, dry_run) called by
\* itself
StartDeleteNamespace(p, a, th, dr) ==
    /\ job[p].pc = "idle"
    /\ runs < MaxRuns
    /\ runs' = runs + 1
    /\ job' = [job EXCEPT ![p] =
                 [IdleJob EXCEPT !.pc = "dn_account", !.mode = "direct",
                                 !.throttle = th, !.dry_run = dr,
                                 !.account_id = a,
                                 !.namespace_id = NamespaceOf(a)]]
    /\ UNCHANGED <<dbvars, snapshot, snapStatus, faults, crashedAcct, tw, rc, ext>>

\* delete_marked_accounts, lines 145-147: the list is exhausted
DmaEnd(p) ==
    /\ job[p].pc = "dma_verify"
    /\ job[p].idx > Len(job[p].ids)
    /\ job' = [job EXCEPT ![p].pc = "idle"]
    /\ UNCHANGED <<dbvars, snapshot, snapStatus, runs, faults, crashedAcct,
                   tw, rc, ext>>

\* the precondition without its sync_should_run test
DeletableIgnoringSync(seen) == seen.present /\ seen.is_deleted

\* the precondition of lines 113-121, on what the read of line 112 returned
Deletable(seen) ==
    seen.present /\ ~(seen.sync_should_run \/ ~seen.is_deleted)

\* delete_marked_accounts, lines 109-123: the next pair and its verification
DmaVerify(p) ==
    /\ job[p].pc = "dma_verify"
    /\ job[p].idx <= Len(job[p].ids)
    /\ LET j0 == job[p]
           a == j0.ids[j0.idx][1]
           n == j0.ids[j0.idx][2]
           seen == [read |-> TRUE, present |-> acct[a].present,
                    is_deleted |-> acct[a].present /\ acct[a].is_deleted,
                    sync_should_run |->
                        acct[a].present /\ acct[a].sync_should_run]
           j == [j0 EXCEPT !.seen = seen, !.visited = {}, !.removed = 0,
                           !.deleted_dates = {},
                           !.processed = @ + 1, !.account_id = a,
                           !.namespace_id = n]
       IN  job' = [job EXCEPT ![p] =
                     IF Deletable(seen)
                     THEN [j EXCEPT !.pc = "dn_account"]
                     ELSE NextPair(j, FALSE, FALSE)]
    /\ UNCHANGED <<dbvars, snapshot, snapStatus, runs, faults, crashedAcct,
                   tw, rc, ext>>

\* where a statement of a loop starts: at its throttle check when throttling
\* is on (`if throttle and check_throttle()`), else at the statement
StmtPc(j, loop) ==
    IF j.throttle THEN loop \o "_check" ELSE loop \o "_exec"

\* delete_namespace, lines 187-205: after the last batched table, the
\* single-statement tables
NextBatchTable(j) ==
    IF j.fi < Len(j.filters)
    THEN [j EXCEPT !.fi = @ + 1, !.pc = "bd_count", !.lastCheck = "none",
                   !.paused = 0]
    ELSE [j EXCEPT !.filters = SingleFilters(j.account_id, j.namespace_id),
                   !.fi = 1, !.pc = StmtPc(j, "sd"), !.lastCheck = "none",
                   !.paused = 0]

\* delete_namespace, lines 177-185: the account is read for its discriminator;
\* a missing account is None, and None.discriminator raises
DnAccount(p) ==
    /\ job[p].pc = "dn_account"
    /\ LET j == job[p]
           a == j.account_id
       IN  job' = [job EXCEPT ![p] =
                     IF ~acct[a].present THEN Raise(j)
                     ELSE [j EXCEPT !.filters =
                                        BatchFilters(a, j.namespace_id,
                                                     acct[a].eas),
                                    !.fi = 1, !.pc = "bd_count"]]
    /\ UNCHANGED <<dbvars, snapshot, snapStatus, runs, faults, crashedAcct,
                   tw, rc, ext>>

\* _batch_delete, lines 235-247: the count, and the number of batches
BdCount(p) ==
    /\ job[p].pc = "bd_count"
    /\ LET j0 == job[p]
           f == j0.filters[j0.fi]
           count == CountRows(f)
           j == [j0 EXCEPT !.visited = @ \cup {f.table}]
       IN  job' = [job EXCEPT ![p] =
                     IF count = 0 THEN NextBatchTable(j)
                     ELSE [j EXCEPT !.batches = Batches(count), !.bi = 0,
                                    !.pc = StmtPc(j, "bd")]]
    /\ UNCHANGED <<dbvars, snapshot, snapStatus, runs, faults, crashedAcct,
                   tw, rc, ext>>

\* lines 252-254 and 211-213: `if throttle and check_throttle(): sleep(60)`
ThrottleStep(j, lag, cpu, hour, exec) ==
    LET out == check_throttle(lag, cpu, hour)
    IN  IF out = "raise" THEN Raise(j)
        ELSE [j EXCEPT !.lastCheck = out,
                       !.paused = IF out = "true" THEN THROTTLE_SLEEP ELSE 0,
                       !.pc = exec]

BdCheck(p) ==
    /\ job[p].pc = "bd_check"
    /\ \E lag \in HttpOutcomes, cpu \in HttpOutcomes, hour \in JobHours :
         job' = [job EXCEPT ![p] =
                   ThrottleStep(job[p], lag, cpu, hour, "bd_exec")]
    /\ UNCHANGED <<dbvars, snapshot, snapStatus, runs, faults, crashedAcct,
                   tw, rc, ext>>

\* a LIMIT below the chunk size the number of batches is computed from
BatchRemovesBelowChunk(count) == Min(count, CHUNK_SIZE \div 2)

\* the rows one batched statement removes: DELETE ... LIMIT 2000
BatchRemoves(count) == Min(count, DELETE_LIMIT)

Dates == 1 .. MaxDates

\* the rows a DELETE ... ORDER BY received_date <order> LIMIT k takes from
\* the messages of a namespace (dates |-> their number per received_date),
\* going through the dates `from`, `from + step`, ... : what is left, and the
\* received dates of the rows taken
RECURSIVE DeleteOrdered(_, _, _, _)
DeleteOrdered(dates, k, from, step) ==
    IF from \notin Dates \/ k = 0
    THEN [left |-> dates, taken |-> {}]
    ELSE LET n == Min(dates[from], k)
             r == DeleteOrdered([dates EXCEPT ![from] = @ - n], k - n,
                                from + step, step)
         IN  [left |-> r.left,
              taken |-> r.taken \cup (IF n > 0 THEN {from} ELSE {})]

\* the oldest messages first
MessageDeleteAscending(dates, k) == DeleteOrdered(dates, k, 1, 1)

\* _batch_delete, lines 256-262: DELETE FROM message ... ORDER BY
\* received_date desc LIMIT 2000
MessageDelete(dates, k) == DeleteOrdered(dates, k, MaxDates, -1)

\* _batch_delete, lines 251-265: one pass of the loop after its throttle check
BdExec(p) ==
    /\ job[p].pc = "bd_exec"
    /\ LET j0 == job[p]
           f == j0.filters[j0.fi]
           k == IF j0.dry_run THEN 0 ELSE BatchRemoves(rows[f.table][f.id])
           md == IF f.table = "message"
                 THEN MessageDelete(msgdate[f.id], k)
                 ELSE [left |-> msgdate[f.id], taken |-> {}]
           j == [j0 EXCEPT !.bi = @ + 1, !.removed = @ + k,
                           !.deleted_dates = @ \cup md.taken,
                           !.stmtCheck = IF j0.dry_run THEN @
                                         ELSE j0.lastCheck]
       IN  /\ rows' = [rows EXCEPT ![f.table][f.id] = @ - k]
           /\ msgdate' = IF f.table = "message"
                         THEN [msgdate EXCEPT ![f.id] = md.left]
                         ELSE msgdate
           /\ job' = [job EXCEPT ![p] =
                        IF j.bi < j.batches
                        THEN [j EXCEPT !.pc = StmtPc(j, "bd"),
                                       !.lastCheck = "none", !.paused = 0]
                        ELSE NextBatchTable(j)]
    /\ UNCHANGED <<acct, nsrow, hb, snapshot, snapStatus, runs, faults,
                   crashedAcct, tw, rc, ext>>

SdCheck(p) ==
    /\ job[p].pc = "sd_check"
    /\ \E lag \in HttpOutcomes, cpu \in HttpOutcomes, hour \in JobHours :
         job' = [job EXCEPT ![p] =
                   ThrottleStep(job[p], lag, cpu, hour, "sd_exec")]
    /\ UNCHANGED <<dbvars, snapshot, snapStatus, runs, faults, crashedAcct,
                   tw, rc, ext>>

\* delete_namespace, lines 207-221: DELETE FROM table WHERE column = id
SdExec(p) ==
    /\ job[p].pc = "sd_exec"
    /\ LET j0 == job[p]
           f == j0.filters[j0.fi]
           k == IF j0.dry_run THEN 0 ELSE CountRows(f)
           j == [j0 EXCEPT !.visited = @ \cup {f.table}, !.removed = @ + k,
                           !.stmtCheck = IF j0.dry_run THEN @
                                         ELSE j0.lastCheck,
                           !.lastCheck = "none", !.paused = 0]
       IN  /\ IF f.table = "namespace"
              THEN /\ nsrow' = [nsrow EXCEPT ![f.id] = @ /\ j0.dry_run]
                   /\ UNCHANGED rows
              ELSE /\ rows' = [rows EXCEPT ![f.table][f.id] = @ - k]
                   /\ UNCHANGED nsrow
           /\ job' = [job EXCEPT ![p] =
                        IF j.fi < Len(j.filters)
                        THEN [j EXCEPT !.fi = @ + 1, !.pc = StmtPc(j, "sd")]
                        ELSE [j EXCEPT !.pc = "dn_delacct"]]
    /\ UNCHANGED <<acct, hb, msgdate, snapshot, snapStatus, runs, faults,
                   crashedAcct, tw, rc, ext>>

\* delete_namespace returns: to delete_marked_accounts, line 135, or to the
\* direct caller
Returned(j) ==
    IF j.mode = "dma" THEN [j EXCEPT !.pc = "dma_heartbeat"]
    ELSE [j EXCEPT !.pc = "idle"]

\* delete_namespace, lines 225-229: the account object is deleted through the
\* session; db_session.delete(None) raises
DnDeleteAccount(p) ==
    /\ job[p].pc = "dn_delacct"
    /\ LET j == job[p]
           a == j.account_id
       IN  IF j.dry_run
           THEN /\ job' = [job EXCEPT ![p] = Returned(j)]
                /\ UNCHANGED acct
           ELSE IF ~acct[a].present
           THEN /\ job' = [job EXCEPT ![p] = Raise(j)]
                /\ UNCHANGED acct
           ELSE /\ acct' = [acct EXCEPT ![a] = DeletedAccount]
                /\ job' = [job EXCEPT ![p] =
                             Returned([j EXCEPT !.removed = @ + 1,
                                                !.visited = @ \cup {"account"}])]
    /\ UNCHANGED <<nsrow, rows, hb, msgdate, snapshot, snapStatus, runs,
                   faults, crashedAcct, tw, rc, ext>>

\* clear_heartbeat_status of the liveness tracker
ClearHeartbeat(a) == [hb EXCEPT ![a] = FALSE]

\* delete_marked_accounts, lines 135-141
DmaHeartbeat(p) ==
    /\ job[p].pc = "dma_heartbeat"
    /\ hb' = ClearHeartbeat(job[p].account_id)
    /\ job' = [job EXCEPT ![p] =
                 NextPair([job[p] EXCEPT !.deleted_count = @ + 1],
                          FALSE, TRUE)]
    /\ UNCHANGED <<acct, nsrow, rows, msgdate, snapshot, snapStatus, runs,
                   faults, crashedAcct, tw, rc, ext>>

\* the statements of delete_namespace that delete (or count) a table
TableStatements == {"bd_count", "bd_exec", "sd_exec"}

\* the statements that go to the database and may fail there
AtStatement(j) ==
    \/ j.pc \in {"bd_count", "dn_account", "dn_delacct"}
    \/ j.pc \in {"bd_exec", "sd_exec"} /\ ~j.dry_run

\* The database fails the statement the job is at (a lock timeout, a lost
\* connection): engine.execute or the session raises.
StatementFails(p) ==
    /\ AtStatement(job[p])
    /\ faults < MaxFaults
    /\ faults' = faults + 1
    /\ job' = [job EXCEPT ![p] =
                 IF job[p].pc \in TableStatements
                 THEN [Raise(job[p]) EXCEPT
                          !.failedTable = @ \cup {job[p].account_id}]
                 ELSE [Raise(job[p]) EXCEPT
                          !.failedOther = @ \cup {job[p].account_id}]]
    /\ UNCHANGED <<dbvars, snapshot, snapStatus, runs, crashedAcct, tw, rc, ext>>

\* The process of the job dies (the only cancellation there is): its frame
\* and the list it held are lost, the database stays as it is.
InDeleteNamespace(j) ==
    j.pc \in {"dn_account", "bd_count", "bd_check", "bd_exec", "sd_check",
              "sd_exec", "dn_delacct"}

Crash(p) ==
    /\ job[p].pc \notin {"idle", "off"}
    /\ crashedAcct = 0
    /\ InDeleteNamespace(job[p]) /\ ~job[p].dry_run
    /\ crashedAcct' = job[p].account_id
    /\ job' = [job EXCEPT ![p] = IdleJob]
    /\ snapshot' = <<>>
    /\ snapStatus' = "none"
    /\ UNCHANGED <<dbvars, runs, faults, tw, rc, ext>>

(***************************************************************************)
(* Initial states                                                          *)
(***************************************************************************)
\* the numbers of rows a high-volume table of an account starts with
RowChoices ==
    {0, 1} \cup {k * CHUNK_SIZE + r : k \in 1 .. MaxChunks, r \in {0, 1}}

\* the tables that start with that many rows; the others start with one row,
\* or with none when that number is 0
HighVolumeTables == {"message", "transaction"}

\* An account row: a live account with its flags, or (present = FALSE) the
\* place of an account a finished deletion has removed.
AccountRows ==
    [present : {TRUE}, is_deleted : BOOLEAN, sync_should_run : BOOLEAN,
     eas : BOOLEAN]
        \cup {DeletedAccount}

\* the tables whose filter column holds a namespace id
NamespaceScoped ==
    Range(BatchNamespaceTables) \cup {"category", "calendar"}

\* the account that owns the rows of table t whose filter column is id
OwnerOf(t, id) ==
    IF t \in NamespaceScoped
    THEN CHOOSE a \in Accounts : NamespaceOf(a) = id
    ELSE id

\* The tables an account uses start with n rows (the high-volume ones) or
\* Min(n, 1) rows; the tables of the other account type hold none of its
\* rows, and an account deleted before has no row left.
InitialRows(accounts, n) ==
    [t \in RowTables |->
        [id \in Accounts |->
            LET a == OwnerOf(t, id)
            IN  IF ~accounts[a].present THEN 0
                ELSE IF t \in Range(ImapTables) /\ accounts[a].eas THEN 0
                ELSE IF t \in Range(EasTables) /\ ~accounts[a].eas THEN 0
                ELSE IF t \in HighVolumeTables THEN n
                ELSE Min(n, 1)]]

\* the lists of (account id, namespace id) pairs delete_marked_accounts is
\* given: pairs of get_accounts_to_delete, each at most once, in any order
RECURSIVE ListsOver(_)
ListsOver(S) ==
    {<<>>} \cup UNION {{<<(<<a, NamespaceOf(a)>>)>> \o l : l \in ListsOver(S \ {a})}
                        : a \in S}
InputLists == ListsOver(Accounts)

TwIdle ==
    [start |-> 0, duration |-> 0, lag |-> "200", cpu |-> "200", hour |-> 0,
     result |-> "none"]
RcIdle ==
    [phase |-> "off", store |-> <<>>, before |-> <<>>,
     new |-> [namespace_id |-> 0, has_uid |-> FALSE, inbox_uid |-> <<>>,
              data_sha256 |-> "", headers |-> [message_id_header |-> "",
              references |-> "", parsed_body |-> ""]],
     result |-> [kind |-> "none", id |-> 0]]

PtIdle == [pc |-> "off"]
ApiIdle == [pc |-> "off"]

\* the messages of every namespace all received at the first date
SameDate(r) ==
    [id \in Accounts |->
        [d \in Dates |-> IF d = 1 THEN r["message"][id] ELSE 0]]

InitDb ==
    /\ acct \in [Accounts -> AccountRows]
    /\ nsrow = [id \in Accounts |-> acct[NamespaceOf(id)].present]
    /\ \E n \in RowChoices : rows = InitialRows(acct, n)
    /\ hb = [a \in Accounts |-> acct[a].present]
    /\ msgdate = SameDate(rows)

\* nothing of the transaction log, the query functions and the plan cache
ExtIdle ==
    /\ pt = PtIdle
    /\ api = ApiIdle
    /\ bakery = {}

InitJob ==
    /\ job = [p \in Procs |-> IF p = 1 THEN IdleJob ELSE OffJob]
    /\ snapshot = <<>>
    /\ snapStatus = "none"
    /\ runs = 0
    /\ faults = 0
    /\ crashedAcct = 0

Init ==
    /\ InitDb
    /\ InitJob
    /\ tw = TwIdle
    /\ rc = RcIdle
    /\ ExtIdle

JobStep(p) ==
    \/ DmaVerify(p)
    \/ DmaEnd(p)
    \/ DnAccount(p)
    \/ BdCount(p)
    \/ BdCheck(p)
    \/ BdExec(p)
    \/ SdCheck(p)
    \/ SdExec(p)
    \/ DnDeleteAccount(p)
    \/ DmaHeartbeat(p)

\* One call: delete_marked_accounts on any list, or delete_namespace.
Next ==
    \/ \E p \in Procs, ids \in InputLists, th \in BOOLEAN, dr \in BOOLEAN :
         runs = 0 /\ StartDeleteMarkedAccounts(p, ids, th, dr)
    \/ \E p \in Procs, a \in Accounts, th \in BOOLEAN, dr \in BOOLEAN :
         runs = 0 /\ StartDeleteNamespace(p, a, th, dr)
    \/ \E p \in Procs : JobStep(p)

Spec == Init /\ [][Next]_vars

\* One call of delete_marked_accounts during which the database may fail
\* statements. Every account is there and marked for deletion.
InitFault ==
    /\ Init
    /\ \A a \in Accounts : Deletable(acct[a])

NextFault ==
    \/ \E p \in Procs, ids \in InputLists, th \in BOOLEAN, dr \in BOOLEAN :
         runs = 0 /\ StartDeleteMarkedAccounts(p, ids, th, dr)
    \/ \E p \in Procs : JobStep(p)
    \/ \E p \in Procs : StatementFails(p)

SpecFault == InitFault /\ [][NextFault]_vars

\* The procedure of the operator's script: get_accounts_to_delete, then
\* delete_marked_accounts on its list without throttling, run again when it
\* has ended or when its process has died.
NextProcedure ==
    \/ get_accounts_to_delete
    \/ \E p \in Procs, dr \in BOOLEAN :
         /\ snapStatus = "ok"
         /\ StartDeleteMarkedAccounts(p, snapshot, FALSE, dr)
    \/ \E p \in Procs :
         \/ DmaVerify(p)
         \/ DmaEnd(p)
         \/ DnAccount(p)
         \/ BdCount(p)
         \/ BdExec(p)
         \/ SdExec(p)
         \/ DnDeleteAccount(p)
         \/ DmaHeartbeat(p)
    \/ \E p \in Procs : Crash(p)

SpecProcedure == Init /\ [][NextProcedure]_vars

(***************************************************************************)
(* Two job instances, each deleting one namespace with delete_namespace,   *)
(* at the same time                                                        *)
(***************************************************************************)
InitConcurrent ==
    /\ InitDb
    /\ \A a \in Accounts : Deletable(acct[a])
    /\ job = [p \in Procs |-> IdleJob]
    /\ snapshot = <<>>
    /\ snapStatus = "none"
    /\ runs = 0
    /\ faults = 0
    /\ crashedAcct = 0
    /\ tw = TwIdle
    /\ rc = RcIdle
    /\ ExtIdle

\* a job instance that has not run yet is given a pair no other instance has
StartConcurrent(p, a, dr) ==
    /\ job[p].mode = "none"
    /\ \A q \in Procs \ {p} : job[q].account_id # a
    /\ StartDeleteNamespace(p, a, FALSE, dr)

NextConcurrent ==
    \/ \E p \in Procs, a \in Accounts, dr \in BOOLEAN :
         StartConcurrent(p, a, dr)
    \/ \E p \in Procs :
         \/ DnAccount(p)
         \/ BdCount(p)
         \/ BdExec(p)
         \/ SdExec(p)
         \/ DnDeleteAccount(p)

SpecConcurrent == InitConcurrent /\ [][NextConcurrent]_vars

(***************************************************************************)
(* delete_namespace on a namespace whose messages have several received    *)
(* dates, more of them than one DELETE statement takes                     *)
(***************************************************************************)
RECURSIVE SumDates(_, _)
SumDates(dates, d) ==
    IF d \notin Dates THEN 0 ELSE dates[d] + SumDates(dates, d + 1)

InitOrder ==
    /\ acct \in [Accounts -> {r \in AccountRows : Deletable(r)}]
    /\ nsrow = [id \in Accounts |-> TRUE]
    /\ hb = [a \in Accounts |-> TRUE]
    /\ \E dates \in [Dates -> RowChoices] :
         /\ msgdate = [id \in Accounts |-> dates]
         /\ rows = [InitialRows(acct, 1) EXCEPT
                       !["message"] = [id \in Accounts |->
                                          SumDates(dates, 1)]]
    /\ InitJob
    /\ tw = TwIdle
    /\ rc = RcIdle
    /\ ExtIdle

NextOrder ==
    \/ \E p \in Procs, a \in Accounts, th \in BOOLEAN, dr \in BOOLEAN :
         runs = 0 /\ StartDeleteNamespace(p, a, th, dr)
    \/ \E p \in Procs :
         \/ DnAccount(p)
         \/ BdCount(p)
         \/ BdCheck(p)
         \/ BdExec(p)
         \/ SdCheck(p)
         \/ SdExec(p)
         \/ DnDeleteAccount(p)

SpecOrder == InitOrder /\ [][NextOrder]_vars

(***************************************************************************)
(* purge_transactions                                                      *)
(***************************************************************************)
\* created_at of a transaction row, and the clock, are days 0 .. MaxDay
MaxDay == 2
\* transaction rows created on one day
MaxTxn == 1
\* the greatest `limit` and the greatest `days_ago` of a call
MaxLimit == 1
MaxDaysAgo == 1

PurgeDays == 0 .. MaxDay

\* created_at < DATE_SUB(start, INTERVAL days_ago day), not excluding the day
\* of the cutoff itself
OldInclusive(created_at, start, days_ago) == created_at <= start - days_ago

\* purge_transactions, lines 338-343: created_at < DATE_SUB(start, INTERVAL
\* days_ago day)
Old(created_at, start, days_ago) == created_at < start - days_ago

\* lines 330-332: 'now()' as the database evaluates it when the statement
\* runs, or the `now` the caller gave
PurgeStart(f) == IF f.now_given THEN f.now ELSE f.clock

RECURSIVE SumTxn(_, _)
SumTxn(txn, d) ==
    IF d \notin PurgeDays THEN 0 ELSE txn[d] + SumTxn(txn, d + 1)

\* the rows the WHERE clause of the statement matches
OldRows(f) ==
    [d \in PurgeDays |->
        IF Old(d, PurgeStart(f), f.days_ago) THEN f.txn[d] ELSE 0]

\* DELETE ... LIMIT limit without ORDER BY: any `limit` of the matching rows
\* (all of them when there are fewer)
PurgeTakes(f) ==
    LET old == OldRows(f)
        n == Min(f.limit, SumTxn(old, 0))
    IN  {take \in [PurgeDays -> 0 .. MaxTxn] :
            /\ \A d \in PurgeDays : take[d] <= old[d]
            /\ SumTxn(take, 0) = n}

\* SELECT id ... LIMIT limit OFFSET offset: the number of rows it returns
PurgeSelects(f) ==
    LET n == SumTxn(OldRows(f), 0)
    IN  Min(f.limit, IF n > f.offset THEN n - f.offset ELSE 0)

\* purge_transactions(shard_id, days_ago, limit, throttle, dry_run, now) is
\* called, lines 328-346: rowcount = 1 and the loop is entered. The last
\* fields are history: the created_at days of the rows deleted, the rows the
\* last statement deleted, the start of the interval of the last statement,
\* and the statements executed after a pause.
PurgeFrames ==
    [pc : {"loop"}, txn : [PurgeDays -> 0 .. MaxTxn], clock : PurgeDays,
     now_given : BOOLEAN, now : PurgeDays, days_ago : 0 .. MaxDaysAgo,
     limit : 1 .. MaxLimit, throttle : BOOLEAN, dry_run : BOOLEAN,
     rowcount : {1}, offset : {0}, lastCheck : {"none"}, error : {FALSE},
     removed_days : {{}}, batch : {0}, start : {0}, statements : {0},
     paused : {FALSE}]

InitPurge ==
    /\ InitJob
    /\ acct = [a \in Accounts |-> DeletedAccount]
    /\ nsrow = [id \in Accounts |-> FALSE]
    /\ rows = InitialRows(acct, 0)
    /\ hb = [a \in Accounts |-> FALSE]
    /\ msgdate = SameDate(rows)
    /\ tw = TwIdle
    /\ rc = RcIdle
    /\ api = ApiIdle
    /\ bakery = {}
    /\ pt \in PurgeFrames
    /\ pt.now_given => pt.clock = pt.now
    /\ ~pt.now_given => pt.now = 0

PurgeUnchanged ==
    UNCHANGED <<dbvars, snapshot, snapStatus, job, runs, crashedAcct, tw, rc,
                api, bakery>>

\* lines 347-348: `while rowcount > 0`, then `while throttle and
\* check_throttle()` with check_throttle() true: sleep(60) and check again
PtThrottled ==
    /\ pt.pc = "loop" /\ pt.rowcount > 0 /\ pt.throttle
    /\ \E lag \in HttpOutcomes, cpu \in HttpOutcomes, hour \in JobHours :
         /\ check_throttle(lag, cpu, hour) = "true"
         /\ pt' = [pt EXCEPT !.lastCheck = "true", !.paused = TRUE]
    /\ UNCHANGED faults
    /\ PurgeUnchanged

\* line 348: throttling is off, or check_throttle() returns False
PtCheckPassed ==
    /\ pt.pc = "loop" /\ pt.rowcount > 0
    /\ \/ /\ ~pt.throttle
          /\ pt' = [pt EXCEPT !.pc = "stmt"]
       \/ /\ pt.throttle
          /\ \E lag \in HttpOutcomes, cpu \in HttpOutcomes,
                hour \in JobHours :
               /\ check_throttle(lag, cpu, hour) = "false"
               /\ pt' = [pt EXCEPT !.pc = "stmt", !.lastCheck = "false"]
    /\ UNCHANGED faults
    /\ PurgeUnchanged

\* lines 363-364: the exception is logged and purge_transactions returns
PurgeRaise(f) == [f EXCEPT !.pc = "done", !.error = TRUE]

\* line 348: requests.get raises inside check_throttle()
PtCheckRaises ==
    /\ pt.pc = "loop" /\ pt.rowcount > 0 /\ pt.throttle
    /\ \E lag \in HttpOutcomes, cpu \in HttpOutcomes, hour \in JobHours :
         check_throttle(lag, cpu, hour) = "raise"
    /\ pt' = PurgeRaise(pt)
    /\ UNCHANGED faults
    /\ PurgeUnchanged

\* lines 351-358: one statement in its own session
PtExecute ==
    /\ pt.pc = "stmt"
    /\ IF pt.dry_run
       THEN LET n == PurgeSelects(pt)
            IN  pt' = [pt EXCEPT !.pc = "loop", !.rowcount = n,
                                 !.offset = @ + n, !.batch = 0,
                                 !.start = PurgeStart(pt)]
       ELSE \E take \in PurgeTakes(pt) :
              pt' = [pt EXCEPT
                       !.pc = "loop",
                       !.txn = [d \in PurgeDays |-> @[d] - take[d]],
                       !.rowcount = SumTxn(take, 0),
                       !.batch = SumTxn(take, 0),
                       !.start = PurgeStart(pt),
                       !.removed_days =
                           @ \cup {d \in PurgeDays : take[d] > 0},
                       !.statements =
                           IF pt.paused THEN Min(@ + 1, 2) ELSE @]
    /\ UNCHANGED faults
    /\ PurgeUnchanged

\* lines 347 and 361: rowcount is 0, the loop ends
PtEnd ==
    /\ pt.pc = "loop" /\ pt.rowcount = 0
    /\ pt' = [pt EXCEPT !.pc = "done"]
    /\ UNCHANGED faults
    /\ PurgeUnchanged

\* the database fails the statement: db_session.execute raises
PtStatementFails ==
    /\ pt.pc = "stmt"
    /\ faults < MaxFaults
    /\ faults' = faults + 1
    /\ pt' = PurgeRaise(pt)
    /\ PurgeUnchanged

\* a day passes during the purge; now() of the next statement is a day later
PtTick ==
    /\ pt.pc \in {"loop", "stmt"}
    /\ ~pt.now_given
    /\ pt.clock < MaxDay
    /\ pt' = [pt EXCEPT !.clock = @ + 1]
    /\ UNCHANGED faults
    /\ PurgeUnchanged

NextPurge ==
    \/ PtThrottled
    \/ PtCheckPassed
    \/ PtCheckRaises
    \/ PtExecute
    \/ PtEnd
    \/ PtStatementFails
    \/ PtTick

\* The process runs: the loop goes on while it can, and the throttle is not
\* asserted forever.
SpecPurge ==
    /\ InitPurge
    /\ [][NextPurge]_vars
    /\ WF_vars(PtCheckPassed)
    /\ WF_vars(PtExecute)
    /\ WF_vars(PtEnd)

(***************************************************************************)
(* check_throttle on its own: every window, every answer of the two health *)
(* checks, every hour                                                      *)
(***************************************************************************)
Durations == 1 .. 24

InitThrottle ==
    /\ InitJob
    /\ acct = [a \in Accounts |-> DeletedAccount]
    /\ nsrow = [id \in Accounts |-> FALSE]
    /\ rows = InitialRows(acct, 0)
    /\ hb = [a \in Accounts |-> FALSE]
    /\ msgdate = SameDate(rows)
    /\ ExtIdle
    /\ rc = RcIdle
    /\ tw \in [start : Hours, duration : Durations, lag : HttpOutcomes,
               cpu : HttpOutcomes, hour : Hours, result : {"none"}]

CallCheckThrottle ==
    /\ tw.result = "none"
    /\ tw' = [tw EXCEPT !.result =
                CheckThrottleWindow(tw.start, tw.duration, tw.lag, tw.cpu,
                                    tw.hour)]
    /\ UNCHANGED <<dbvars, snapshot, snapStatus, job, runs, faults,
                   crashedAcct, rc, ext>>

NextThrottle == CallCheckThrottle

SpecThrottle == InitThrottle /\ [][NextThrottle]_vars

(***************************************************************************)
(* reconcile_message                                                       *)
(***************************************************************************)
\* the characters of the X-Inbox-Uid values the model reads
DigitChars == <<"0", "1", "2", "3">>
Chars == {"a", "b", "-", "1", "2", "3"}
\* the longest X-Inbox-Uid value
MaxUidLen == 3
\* messages the store holds before the call
MaxMessages == 2
\* the greatest version of a stored draft
MaxVersion == 3

Strings(n) == UNION {[1 .. k -> Chars] : k \in 0 .. n}

\* str.split('-'): the pieces between the dashes
RECURSIVE Split(_)
Split(str) ==
    IF \A i \in 1 .. Len(str) : str[i] # "-" THEN <<str>>
    ELSE LET i == CHOOSE k \in 1 .. Len(str) :
                      str[k] = "-" /\ \A l \in 1 .. k - 1 : str[l] # "-"
         IN  <<SubSeq(str, 1, i - 1)>> \o Split(SubSeq(str, i + 1, Len(str)))

DigitValue(c) == CHOOSE d \in 0 .. 3 : DigitChars[d + 1] = c

\* int(str) raises ValueError unless str is a decimal numeral
IsNumeral(str) ==
    Len(str) > 0 /\ \A i \in 1 .. Len(str) : str[i] \in Range(DigitChars)

RECURSIVE IntOf(_)
IntOf(str) ==
    IF Len(str) = 0 THEN 0
    ELSE 10 * IntOf(SubSeq(str, 1, Len(str) - 1)) + DigitValue(str[Len(str)])

NoMessage == [kind |-> "none", id |-> 0]
Raised == [kind |-> "raised", id |-> 0]
Pending == [kind |-> "pending", id |-> 0]
Found(id) == [kind |-> "message", id |-> id]

\* the header fields of the message that was synced
SyncedHeaders ==
    [message_id_header |-> "synced", references |-> "synced",
     parsed_body |-> "synced"]
StoredHeaders ==
    [message_id_header |-> "stored", references |-> "stored",
     parsed_body |-> "stored"]

\* reconcile_message, lines 40-57: the rows the query of the call matches
Candidates(store, new) ==
    IF ~new.has_uid
    THEN {id \in DOMAIN store :
            /\ store[id].namespace_id = new.namespace_id
            /\ store[id].data_sha256 = new.data_sha256}
    ELSE IF "-" \notin Range(new.inbox_uid)
    THEN {id \in DOMAIN store :
            /\ store[id].namespace_id = new.namespace_id
            /\ store[id].has_uid
            /\ store[id].inbox_uid = new.inbox_uid
            /\ store[id].is_created}
    ELSE {id \in DOMAIN store :
            /\ store[id].namespace_id = new.namespace_id
            /\ store[id].public_id = Split(new.inbox_uid)[1]
            /\ store[id].is_created}

\* a variant that also overwrites with the headers of an older version
UpdatesHeadersUpToStored(version_is_none, version, existing) ==
    version_is_none \/ IntOf(version) <= existing.version

\* reconcile_message, line 62: whether the header fields are overwritten
UpdatesHeaders(version_is_none, version, existing) ==
    version_is_none \/ IntOf(version) = existing.version

\* reconcile_message, lines 33-68, with `id` the row .first() returns (0 when
\* the query matches nothing): the result, and the store after the call
reconcile_message(store, new, id) ==
    IF ~new.has_uid
    THEN [result |-> IF id = 0 THEN NoMessage ELSE Found(id), store |-> store]
    ELSE LET old_format == "-" \notin Range(new.inbox_uid)
             parts == Split(new.inbox_uid)
         IN  IF ~old_format /\ Len(parts) # 2
             THEN [result |-> Raised, store |-> store]
             ELSE IF id = 0
             THEN [result |-> NoMessage, store |-> store]
             ELSE IF ~old_format /\ ~IsNumeral(parts[2])
             THEN [result |-> Raised, store |-> store]
             ELSE [result |-> Found(id),
                   store |->
                     IF UpdatesHeaders(old_format,
                                       IF old_format THEN <<>> ELSE parts[2],
                                       store[id])
                     THEN [store EXCEPT ![id].headers = new.headers]
                     ELSE store]

\* a stored message: one the API created carries its public id as inbox_uid
StoredMessages(public_id) ==
    {[namespace_id |-> n, public_id |-> public_id, has_uid |-> c,
      inbox_uid |-> IF c THEN public_id ELSE <<>>, is_created |-> c,
      version |-> v, data_sha256 |-> h, headers |-> StoredHeaders] :
        n \in 1 .. 2, c \in BOOLEAN, v \in 1 .. MaxVersion,
        h \in {"sha1", "sha2"}}

PublicIds == <<(<<"a">>), (<<"b">>), (<<"a", "b">>), (<<"b", "a">>)>>

Stores ==
    UNION {{st \in [1 .. k -> UNION {StoredMessages(PublicIds[i]) : i \in 1 .. k}] :
                \A i \in 1 .. k : st[i].public_id = PublicIds[i]}
           : k \in 1 .. MaxMessages}

SyncedMessages ==
    {[namespace_id |-> 1, has_uid |-> u, inbox_uid |-> x,
      data_sha256 |-> "sha1", headers |-> SyncedHeaders] :
        u \in BOOLEAN, x \in Strings(MaxUidLen)}

InitReconcile ==
    /\ InitJob
    /\ acct = [a \in Accounts |-> DeletedAccount]
    /\ nsrow = [id \in Accounts |-> FALSE]
    /\ rows = InitialRows(acct, 0)
    /\ hb = [a \in Accounts |-> FALSE]
    /\ msgdate = SameDate(rows)
    /\ ExtIdle
    /\ tw = TwIdle
    /\ \E st \in Stores, new \in SyncedMessages :
         /\ new.has_uid \/ new.inbox_uid = <<>>
         /\ rc = [phase |-> "ready", store |-> st, before |-> st,
                  new |-> new, result |-> Pending]

\* One call of reconcile_message(new_message, session). Without ORDER BY,
\* .first() returns any row the query matches.
Reconcile ==
    /\ rc.phase = "ready"
    /\ LET c == Candidates(rc.store, rc.new)
       IN  \E id \in (IF c = {} THEN {0} ELSE c) :
             LET r == reconcile_message(rc.store, rc.new, id)
             IN  rc' = [rc EXCEPT !.phase = "done", !.result = r.result,
                                  !.store = r.store]
    /\ UNCHANGED <<dbvars, snapshot, snapStatus, job, runs, faults,
                   crashedAcct, tw, ext>>

NextReconcile == Reconcile

SpecReconcile == InitReconcile /\ [][NextReconcile]_vars

(***************************************************************************)
(* The database the query functions of inbox/api/filtering.py read         *)
(***************************************************************************)
\* an optional argument: {} is None, {v} is the value v
Opt(S) == {{}} \cup {{v} : v \in S}

\* the length of a public identifier (scaled down from 24)
PublicIdLength == 2
\* the greatest number of non-null filters of a call
MaxFilters == 2
\* a `limit` that cuts nothing off
NoCutOff == 12

\* the namespaces of the database the queries read
ApiNamespaces == 1 .. 2

AlphaNumeric == {"a", "b", "1", "2", "3", "9"}

\* a public identifier, and a name that is too long to be one
IdToken(ch) == [i \in 1 .. PublicIdLength |-> ch]
NameToken(ch) == [i \in 1 .. PublicIdLength + 1 |-> ch]
\* a token of the right length with a character no identifier has
DashToken == [i \in 1 .. PublicIdLength |-> "-"]

\* inbox.api.validation.valid_public_id: whether the token has the shape of a
\* public identifier (when it has not, InputError is raised)
valid_public_id(token) ==
    /\ Len(token) = PublicIdLength
    /\ \A i \in 1 .. Len(token) : token[i] \in AlphaNumeric

\* the row of a table with the given id
RowById(table, id) == CHOOSE x \in table : x.id = id

ThreadRows ==
    {[id |-> 1, namespace_id |-> 1, public_id |-> "t1", subject |-> "s1",
      subjectdate |-> 1, recentdate |-> 2],
     [id |-> 2, namespace_id |-> 1, public_id |-> "t2", subject |-> "s2",
      subjectdate |-> 2, recentdate |-> 3],
     [id |-> 3, namespace_id |-> 2, public_id |-> "t3", subject |-> "s1",
      subjectdate |-> 1, recentdate |-> 3]}

\* message i, put in a thread; it belongs to the namespace of its thread
MessageRow(i, thread_id, is_draft) ==
    [id |-> i, namespace_id |-> RowById(ThreadRows, thread_id).namespace_id,
     thread_id |-> thread_id, public_id |-> <<"m1", "m2", "m3">>[i],
     is_draft |-> is_draft, is_read |-> i # 2, is_starred |-> i # 1,
     subject |-> IF i = 3 THEN "s2" ELSE "s1",
     received_date |-> IF i = 1 THEN 1 ELSE 2]

ContactRows ==
    {[id |-> 1, namespace_id |-> 1, email_address |-> "a@x"],
     [id |-> 2, namespace_id |-> 1, email_address |-> "b@x"],
     [id |-> 3, namespace_id |-> 2, email_address |-> "a@x"]}

\* MessageContactAssociation: a contact may have several roles on a message
AssociationRows ==
    {[message_id |-> 1, contact_id |-> 1, field |-> "from_addr"],
     [message_id |-> 1, contact_id |-> 2, field |-> "to_addr"],
     [message_id |-> 2, contact_id |-> 2, field |-> "from_addr"],
     [message_id |-> 2, contact_id |-> 1, field |-> "to_addr"],
     [message_id |-> 2, contact_id |-> 1, field |-> "cc_addr"],
     [message_id |-> 3, contact_id |-> 1, field |-> "from_addr"],
     [message_id |-> 3, contact_id |-> 3, field |-> "bcc_addr"]}

\* blocks 1 and 2 are two attachments with the same file name
BlockRows ==
    {[id |-> 1, namespace_id |-> 1, public_id |-> "b1", filename |-> "f1",
      content_type_common |-> {"image/png"}, content_type_other |-> {}],
     [id |-> 2, namespace_id |-> 1, public_id |-> "b2", filename |-> "f1",
      content_type_common |-> {}, content_type_other |-> {"x/y"}],
     [id |-> 3, namespace_id |-> 1, public_id |-> "b3", filename |-> "f2",
      content_type_common |-> {"image/png"}, content_type_other |-> {}],
     [id |-> 4, namespace_id |-> 2, public_id |-> "b4", filename |-> "f1",
      content_type_common |-> {"image/png"}, content_type_other |-> {}]}

\* a part places a block in a message; content_disposition is {} when null
PartRow(message_id, block_id, disposition) ==
    [id |-> 10 * message_id + block_id, message_id |-> message_id,
     block_id |-> block_id, content_disposition |-> disposition]

\* category 1 is a system category, category 2 a label of the user whose
\* display name is the name of category 1
CategoryRows ==
    {[id |-> 1, namespace_id |-> 1, name |-> NameToken("a"),
      display_name |-> NameToken("b"), public_id |-> IdToken("1")],
     [id |-> 2, namespace_id |-> 1, name |-> <<>>,
      display_name |-> NameToken("a"), public_id |-> IdToken("2")],
     [id |-> 3, namespace_id |-> 2, name |-> NameToken("a"),
      display_name |-> NameToken("b"), public_id |-> IdToken("3")]}

\* a metadata row whose value is null is one that was deleted
MetadataRows ==
    {[id |-> 1, namespace_id |-> 1, app_id |-> 1, value |-> {"v"},
      object_public_id |-> "m1"],
     [id |-> 2, namespace_id |-> 1, app_id |-> 2, value |-> {"v"},
      object_public_id |-> "m1"],
     [id |-> 3, namespace_id |-> 1, app_id |-> 1, value |-> {},
      object_public_id |-> "m2"],
     [id |-> 4, namespace_id |-> 2, app_id |-> 1, value |-> {"v"},
      object_public_id |-> "m3"]}

\* A database: `layout` gives the thread of each message, `parts` the
\* (message, block, content_disposition) triples, `cats` the (message,
\* category) pairs and `metadata` the metadata rows it holds.
MailDb(layout, draft3, parts, cats, metadata) ==
    [thread |-> ThreadRows,
     message |-> {MessageRow(i, layout[i], i = 3 /\ draft3) :
                     i \in 1 .. Len(layout)},
     contact |-> ContactRows,
     mca |-> {x \in AssociationRows : x.message_id <= Len(layout)},
     block |-> BlockRows,
     part |-> {PartRow(x[1], x[2], x[3]) :
                  x \in {y \in parts : y[1] <= Len(layout)}},
     category |-> CategoryRows,
     messagecategory |->
         {[message_id |-> x[1], category_id |-> x[2]] :
             x \in {y \in cats : y[1] <= Len(layout)}},
     metadata |-> metadata]

ThreadLayouts == {<<1>>, <<1, 1, 1>>, <<1, 2, 3>>}

\* What varies around message 1: it has no attachment and no category; one
\* attachment and the system category (message 3 a draft to which block 3 is
\* attached as well); two attachments of
\* the same file name and both categories of the namespace; a part that is no
\* attachment while every message is in the system category.  Message 2 has
\* block 3 attached and is in the system category, message 3 is in the
\* category of the other namespace.
MailScenarios ==
    <<[draft3 |-> FALSE, parts |-> {}, cats |-> {}],
      [draft3 |-> TRUE,
       parts |-> {<<1, 1, {"attachment"}>>, <<3, 3, {"attachment"}>>},
       cats |-> {<<1, 1>>}],
      [draft3 |-> FALSE,
       parts |-> {<<1, 1, {"attachment"}>>, <<1, 2, {"attachment"}>>},
       cats |-> {<<1, 1>>, <<1, 2>>}],
      [draft3 |-> FALSE, parts |-> {<<1, 1, {}>>},
       cats |-> {<<1, 1>>, <<3, 1>>}]>>

\* a database is named by its layout and its scenario
MailDbs == ThreadLayouts \X (1 .. Len(MailScenarios))
DatabaseTable ==
    {<<key, MailDb(key[1], MailScenarios[key[2]].draft3,
                   MailScenarios[key[2]].parts
                       \cup {<<2, 3, {"attachment"}>>},
                   MailScenarios[key[2]].cats \cup {<<2, 1>>, <<3, 3>>},
                   MetadataRows)>> : key \in MailDbs}
Database(key) == (CHOOSE p \in DatabaseTable : p[1] = key)[2]

(***************************************************************************)
(* Ordering, pagination and the shape of a result                          *)
(***************************************************************************)
\* the orders in which a statement may return the rows S (records with a
\* `key` and an `item`) under ORDER BY key: rows of equal key come in any order
RECURSIVE OrderBy(_)
OrderBy(S) ==
    IF S = {} THEN {<<>>}
    ELSE LET least == CHOOSE k \in {x.key : x \in S} :
                             \A y \in S : k <= y.key
         IN  UNION {{<<x.item>> \o rest : rest \in OrderBy(S \ {x})} :
                       x \in {y \in S : y.key = least}}

\* LIMIT limit OFFSET offset
Paginate(list, limit, offset) ==
    SubSeq(list, offset + 1, Min(Len(list), offset + limit))

\* Query.all() on one mapped entity: an entity the statement returned before
\* is not returned again
RECURSIVE Uniquify(_)
Uniquify(list) ==
    IF list = <<>> THEN <<>>
    ELSE LET front == Uniquify(SubSeq(list, 1, Len(list) - 1))
             last == list[Len(list)]
         IN  IF \E i \in 1 .. Len(front) : front[i] = last THEN front
             ELSE Append(front, last)

CountResult(n) == [count |-> {n}, items |-> <<>>]
ListResult(items) == [count |-> {}, items |-> items]
\* the number a result stands for: the count, or the length of the list
SizeOf(result) ==
    IF result.count = {} THEN Len(result.items)
    ELSE CHOOSE n \in result.count : TRUE

Views == {"count", "ids", "full"}

(***************************************************************************)
(* messages_or_drafts                                                      *)
(***************************************************************************)
Optional(name, value) == IF value = {} THEN <<>> ELSE <<name>>

AddressFilters == {"to_addr", "from_addr", "cc_addr", "bcc_addr"}
\* the filters before which messages_or_drafts calls query.spoil()
SpoilingFilters == AddressFilters \cup {"any_email", "in_"}

\* the steps (lambdas) the call adds to the baked query, in order
MessageSteps(a) ==
    <<"query_" \o a.view, "join_thread", "namespace_drafts">>
    \o Optional("subject", a.subject)
    \o Optional("unread", a.unread)
    \o Optional("starred", a.starred)
    \o Optional("thread_public_id", a.thread_public_id)
    \o Optional("started_before", a.started_before)
    \o Optional("started_after", a.started_after)
    \o Optional("last_message_before", a.last_message_before)
    \o Optional("last_message_after", a.last_message_after)
    \o Optional("received_before", a.received_before)
    \o Optional("received_after", a.received_after)
    \o Optional("to_addr", a.to_addr)
    \o Optional("from_addr", a.from_addr)
    \o Optional("cc_addr", a.cc_addr)
    \o Optional("bcc_addr", a.bcc_addr)
    \o Optional("any_email", a.any_email)
    \o Optional("filename", a.filename)
    \o Optional("in_", a.in_)
    \o (IF a.view = "count" THEN <<>>
        ELSE <<"order_by", "limit">>
             \o (IF a.offset # 0 THEN <<"offset">> ELSE <<>>)
             \o (IF a.view = "ids" THEN <<>> ELSE <<"options">>))

\* every value is a bind parameter
BindsOnly ==
    [addr |-> {}, emails |-> {}, namespace_id |-> {}, with_id |-> FALSE]

\* The values of the call a step keeps in itself rather than in a bind
\* parameter: the address of a contact subquery, the list of any_email, and
\* for `in_` the namespace and whether the public-id clause is there.
StepLiterals(name, a) ==
    [addr |-> IF name \in AddressFilters THEN a[name] ELSE {},
     emails |-> IF name = "any_email" THEN a.any_email ELSE {},
     namespace_id |-> IF name = "in_" THEN {a.namespace_id} ELSE {},
     with_id |-> name = "in_" /\ \E token \in a.in_ : valid_public_id(token)]

\* the query the steps build: each step with what it keeps of the call
RECURSIVE WithLiterals(_, _)
WithLiterals(steps, a) ==
    IF steps = <<>> THEN <<>>
    ELSE <<[name |-> Head(steps), literals |-> StepLiterals(Head(steps), a)]>>
         \o WithLiterals(Tail(steps), a)

MessagePlan(a) == WithLiterals(MessageSteps(a), a)

\* the values bound when the query runs
param_dict(a) ==
    ("in_id" :> IF \E token \in a.in_ : valid_public_id(token)
                THEN a.in_ ELSE {})
    @@ a

HasStep(plan, name) == \E i \in 1 .. Len(plan) : plan[i].name = name

\* the messages a contact subquery selects
RoleMessages(db, field, addr, namespace_id) ==
    {x.message_id :
        x \in {y \in db.mca :
                  /\ y.field = field
                  /\ \E c \in db.contact :
                        /\ c.id = y.contact_id
                        /\ c.email_address = addr
                        /\ c.namespace_id = namespace_id}}

AnyEmailMessages(db, emails, namespace_id) ==
    {x.message_id :
        x \in {y \in db.mca :
                  \E c \in db.contact :
                     /\ c.id = y.contact_id
                     /\ c.email_address \in emails
                     /\ c.namespace_id = namespace_id}}

\* the category clause without the comparison of the display name
CategoryMatchesName(c, token, with_id, id_token) ==
    \/ c.name \in token
    \/ with_id /\ c.public_id \in id_token

\* the category clause: name, display name and, when it is there, public id
CategoryMatches(c, token, with_id, id_token) ==
    \/ c.name \in token
    \/ c.display_name \in token
    \/ with_id /\ c.public_id \in id_token

\* The rows of message JOIN thread [JOIN part JOIN block] [JOIN
\* messagecategory JOIN category]: a row names the message and, when they are
\* joined, the part and the category (0 when not joined).
MessageJoin(db, plan) ==
    {r \in [message : {m.id : m \in db.message},
            part : {x.id : x \in db.part} \cup {0},
            category : {c.id : c \in db.category} \cup {0}] :
        /\ IF HasStep(plan, "filename")
           THEN r.part # 0 /\ RowById(db.part, r.part).message_id = r.message
           ELSE r.part = 0
        /\ IF HasStep(plan, "in_")
           THEN /\ r.category # 0
                /\ \E mc \in db.messagecategory :
                      mc.message_id = r.message /\ mc.category_id = r.category
           ELSE r.category = 0}

\* whether the join row r passes the step s under the bound values p;
\* a comparison with a null bound value holds for no row
MessageStepHolds(db, s, p, r) ==
    LET m == RowById(db.message, r.message)
        t == RowById(db.thread, m.thread_id)
    IN  CASE s.name = "namespace_drafts" ->
                m.namespace_id = p.namespace_id /\ m.is_draft = p.drafts
          [] s.name = "subject" -> \E v \in p.subject : m.subject = v
          [] s.name = "unread" -> \E v \in p.unread : m.is_read # v
          [] s.name = "starred" -> \E v \in p.starred : m.is_starred = v
          [] s.name = "thread_public_id" ->
                \E v \in p.thread_public_id : t.public_id = v
          [] s.name = "started_before" ->
                /\ \E v \in p.started_before : t.subjectdate < v
                /\ t.namespace_id = p.namespace_id
          [] s.name = "started_after" ->
                /\ \E v \in p.started_after : t.subjectdate > v
                /\ t.namespace_id = p.namespace_id
          [] s.name = "last_message_before" ->
                /\ \E v \in p.last_message_before : t.recentdate < v
                /\ t.namespace_id = p.namespace_id
          [] s.name = "last_message_after" ->
                /\ \E v \in p.last_message_after : t.recentdate > v
                /\ t.namespace_id = p.namespace_id
          [] s.name = "received_before" ->
                \E v \in p.received_before : m.received_date <= v
          [] s.name = "received_after" ->
                \E v \in p.received_after : m.received_date > v
          [] s.name \in AddressFilters ->
                \E v \in s.literals.addr :
                   m.id \in RoleMessages(db, s.name, v, p.namespace_id)
          [] s.name = "any_email" ->
                \E v \in s.literals.emails :
                   m.id \in AnyEmailMessages(db, v, p.namespace_id)
          [] s.name = "filename" ->
                LET b == RowById(db.block, RowById(db.part, r.part).block_id)
                IN  /\ \E v \in p.filename : b.filename = v
                    /\ b.namespace_id = p.namespace_id
          [] s.name = "in_" ->
                LET c == RowById(db.category, r.category)
                IN  /\ c.namespace_id \in s.literals.namespace_id
                    /\ CategoryMatches(c, p.in_, s.literals.with_id, p.in_id)
          [] OTHER -> TRUE

\* the rows the statement selects
MessageRows(db, plan, p) ==
    {r \in MessageJoin(db, plan) :
        \A i \in 1 .. Len(plan) : MessageStepHolds(db, plan[i], p, r)}

\* What running the query `plan` with the bound values p may return:
\* count(Message.id) counts the join rows; the ids view returns the public id
\* of every join row; the full view returns each Message entity once.
RunMessages(db, plan, p) ==
    LET selected == MessageRows(db, plan, p)
        keyed == {[key |-> 0 - RowById(db.message, r.message).received_date,
                   item |-> RowById(db.message, r.message).public_id,
                   row |-> r] : r \in selected}
        limit == IF HasStep(plan, "limit") THEN p.limit ELSE NoCutOff
        offset == IF HasStep(plan, "offset") THEN p.offset ELSE 0
    IN  IF plan[1].name = "query_count"
        THEN {CountResult(Cardinality(selected))}
        ELSE {ListResult(IF plan[1].name = "query_ids"
                         THEN Paginate(l, limit, offset)
                         ELSE Uniquify(Paginate(l, limit, offset))) :
                 l \in OrderBy(keyed)}

\* the non-null optional filters of a call of messages_or_drafts
NonNull(a) ==
    {n \in {"subject", "from_addr", "to_addr", "cc_addr", "bcc_addr",
            "any_email", "thread_public_id", "started_before",
            "started_after", "last_message_before", "last_message_after",
            "received_before", "received_after", "filename", "in_",
            "unread", "starred"} : a[n] # {}}

\* a call that calls query.spoil() is never served by the bakery
SpoiledNever(a) == FALSE
\* messages_or_drafts calls query.spoil() when one of these filters is given
Spoiled(a) == \E n \in SpoilingFilters : a[n] # {}

\* the entries of the bakery a call may use: those under the key of its
\* steps, and none when the query is spoiled
BakedFor(cache, a) ==
    IF Spoiled(a) THEN {} ELSE {e \in cache : e.key = MessageSteps(a)}

\* the query a call runs: its own, or the one the bakery keeps
Baked(cache, a) ==
    IF BakedFor(cache, a) # {}
    THEN (CHOOSE e \in BakedFor(cache, a) : TRUE).plan
    ELSE MessagePlan(a)

\* the bakery after the call: a spoiled query is not kept; an entry records
\* the view, the filters and the subject of the call that baked it
BakeryAfter(cache, a) ==
    IF Spoiled(a) \/ BakedFor(cache, a) # {} THEN cache
    ELSE cache \cup {[key |-> MessageSteps(a), plan |-> MessagePlan(a),
                      view |-> a.view, filters |-> NonNull(a),
                      subject |-> a.subject]}

\* messages_or_drafts with the bakery `cache`: the results it may return
messages_or_drafts(cache, db, a) ==
    RunMessages(db, Baked(cache, a), param_dict(a))

(***************************************************************************)
(* threads                                                                 *)
(***************************************************************************)
\* _threads_filters: the filters on the columns of the thread
ThreadFilters(t, a) ==
    /\ t.namespace_id = a.namespace_id
    /\ \A v \in a.thread_public_id : t.public_id = v
    /\ \A v \in a.started_before : t.subjectdate < v
    /\ \A v \in a.started_after : t.subjectdate > v
    /\ \A v \in a.last_message_before : t.recentdate < v
    /\ \A v \in a.last_message_after : t.recentdate > v
    /\ \A v \in a.subject : t.subject = v

\* the threads of the messages a contact subquery selects
ThreadsOf(db, message_ids) ==
    {m.thread_id : m \in {x \in db.message : x.id \in message_ids}}

\* _threads_subqueries: the thread is in every subquery of a non-null filter
ThreadSubqueries(db, t, a) ==
    /\ \A n \in AddressFilters :
          \A v \in a[n] :
             t.id \in ThreadsOf(db, RoleMessages(db, n, v, a.namespace_id))
    /\ \A v \in a.any_email :
          t.id \in ThreadsOf(db, AnyEmailMessages(db, v, a.namespace_id))
    /\ \A v \in a.filename :
          \E p \in db.part :
             /\ RowById(db.message, p.message_id).thread_id = t.id
             /\ RowById(db.block, p.block_id).filename = v
             /\ RowById(db.block, p.block_id).namespace_id = a.namespace_id
    /\ \A v \in a.unread :
          \E m \in db.message :
             /\ m.thread_id = t.id
             /\ m.namespace_id = a.namespace_id
             /\ m.is_read = ~v
    /\ \A v \in a.starred :
          \E m \in db.message :
             /\ m.thread_id = t.id
             /\ m.namespace_id = a.namespace_id
             /\ m.is_starred = v

\* _threads_join_category: with `in_` the thread is joined with its messages
\* and their categories, one row for each (message, category) that matches
ThreadJoinCategory(db, a) ==
    {r \in [thread : {t.id : t \in db.thread},
            message : {m.id : m \in db.message} \cup {0},
            category : {c.id : c \in db.category} \cup {0}] :
        IF a.in_ = {} THEN r.message = 0 /\ r.category = 0
        ELSE /\ r.message # 0 /\ r.category # 0
             /\ RowById(db.message, r.message).thread_id = r.thread
             /\ \E mc \in db.messagecategory :
                   mc.message_id = r.message /\ mc.category_id = r.category
             /\ RowById(db.category, r.category).namespace_id = a.namespace_id
             /\ CategoryMatches(RowById(db.category, r.category), a.in_,
                                \E token \in a.in_ : valid_public_id(token),
                                a.in_)}

ThreadRowsOf(db, a) ==
    {r \in ThreadJoinCategory(db, a) :
        /\ ThreadFilters(RowById(db.thread, r.thread), a)
        /\ ThreadSubqueries(db, RowById(db.thread, r.thread), a)}

\* count(Thread.id): every join row counts
CountThreadRows(joined) == Cardinality(joined)
\* count(distinct(Thread.id)) for the count view
CountDistinctThreads(joined) ==
    Cardinality({r.thread : r \in joined})
\* threads: the results the call may return
threads(db, a) ==
    LET selected == ThreadRowsOf(db, a)
        keyed == {[key |-> 0 - RowById(db.thread, r.thread).recentdate,
                   item |-> RowById(db.thread, r.thread).public_id,
                   row |-> r] : r \in selected}
    IN  IF a.view = "count" THEN {CountResult(CountDistinctThreads(selected))}
        ELSE {ListResult(IF a.view = "ids"
                         THEN Paginate(l, a.limit, a.offset)
                         ELSE Uniquify(Paginate(l, a.limit, a.offset))) :
                 l \in OrderBy(keyed)}

(***************************************************************************)
(* files and metadata                                                      *)
(***************************************************************************)
\* block LEFT OUTER JOIN part: a row for each part of the block, or one row
\* without a part (0) for a block that has none
BlockOuterJoinPart(db) ==
    {r \in [block : {b.id : b \in db.block},
            part : {p.id : p \in db.part} \cup {0}] :
        IF r.part = 0 THEN \A p \in db.part : p.block_id # r.block
        ELSE RowById(db.part, r.part).block_id = r.block}

FileRows(db, a) ==
    {r \in BlockOuterJoinPart(db) :
        LET b == RowById(db.block, r.block)
        IN  /\ b.namespace_id = a.namespace_id
            /\ \/ r.part = 0
               \/ RowById(db.part, r.part).content_disposition # {}
            /\ \A v \in a.content_type :
                  v \in b.content_type_common \/ v \in b.content_type_other
            /\ \A v \in a.filename : b.filename = v
            /\ \A v \in a.message_public_id :
                  /\ r.part # 0
                  /\ \E m \in db.message :
                        /\ m.id = RowById(db.part, r.part).message_id
                        /\ m.public_id = v}

\* files: count(Block.id) counts the join rows; the other views are DISTINCT
files(db, a) ==
    LET selected == FileRows(db, a)
        keyed == {[key |-> b, item |-> RowById(db.block, b).public_id] :
                     b \in {r.block : r \in selected}}
    IN  IF a.view = "count" THEN {CountResult(Cardinality(selected))}
        ELSE {ListResult(Paginate(l, a.limit, a.offset)) :
                 l \in OrderBy(keyed)}

MetadataRowsOf(db, a) ==
    {x \in db.metadata :
        /\ x.namespace_id = a.namespace_id
        /\ x.value # {}
        /\ \A v \in a.app_id : x.app_id = v}

\* metadata: the ids view returns the public id of the object of each row
metadata(db, a) ==
    LET selected == MetadataRowsOf(db, a)
        keyed == {[key |-> 0 - x.id,
                   item |-> IF a.view = "ids" THEN x.object_public_id
                            ELSE <<"d1", "d2", "d3", "d4">>[x.id]] :
                     x \in selected}
    IN  IF a.view = "count" THEN {CountResult(Cardinality(selected))}
        ELSE {ListResult(Paginate(l, a.limit, a.offset)) :
                 l \in OrderBy(keyed)}

(***************************************************************************)
(* The calls of the query functions                                        *)
(***************************************************************************)
QueryFunctions == {"threads", "messages_or_drafts", "files", "metadata"}

\* the optional filters of each function
FilterNames(fn) ==
    CASE fn = "threads" ->
            {"subject", "from_addr", "to_addr", "cc_addr", "bcc_addr",
             "any_email", "thread_public_id", "started_before",
             "started_after", "last_message_before", "last_message_after",
             "filename", "in_", "unread", "starred"}
      [] fn = "messages_or_drafts" ->
            {"subject", "from_addr", "to_addr", "cc_addr", "bcc_addr",
             "any_email", "thread_public_id", "started_before",
             "started_after", "last_message_before", "last_message_after",
             "received_before", "received_after", "filename", "in_",
             "unread", "starred"}
      [] fn = "files" -> {"message_public_id", "filename", "content_type"}
      [] fn = "metadata" -> {"app_id"}

\* the values a filter is given
FilterValues(name) ==
    CASE name = "subject" -> {"s1", "s2"}
      [] name = "from_addr" -> {"a@x", "b@x"}
      [] name \in {"to_addr", "cc_addr", "bcc_addr"} -> {"a@x"}
      [] name = "any_email" -> {{"a@x", "b@x"}}
      [] name = "thread_public_id" -> {"t1"}
      [] name \in {"started_before", "started_after", "last_message_before",
                   "last_message_after", "received_before",
                   "received_after"} -> {2}
      [] name = "filename" -> {"f1", "f2"}
      [] name = "in_" -> {NameToken("a"), NameToken("b"), IdToken("1"),
                          IdToken("9"), DashToken}
      [] name \in {"unread", "starred"} -> BOOLEAN
      [] name = "message_public_id" -> {"m1", "m2"}
      [] name = "content_type" -> {"image/png", "x/y"}
      [] name = "app_id" -> {1, 2}

\* every optional filter null
NoFilters(fn) == [n \in FilterNames(fn) |-> {}]

\* the records that give at most k more of the filters `names` to `base`
RECURSIVE FiltersOver(_, _, _)
FiltersOver(names, base, k) ==
    IF k = 0 THEN {base}
    ELSE LET fewer == FiltersOver(names, base, k - 1)
         IN  fewer \cup
             UNION {UNION {{[f EXCEPT ![n] = {v}] : v \in FilterValues(n)} :
                              n \in {x \in names : f[x] = {}}} :
                       f \in fewer}

\* the filter records with at most k non-null filters
WithFilters(fn, k) == FiltersOver(FilterNames(fn), NoFilters(fn), k)

\* view, limit and offset; the count view takes no pagination
Paginations ==
    {[view |-> "count", limit |-> NoCutOff, offset |-> 0]}
    \cup {[view |-> v, limit |-> p[1], offset |-> p[2]] :
             v \in {"ids", "full"},
             p \in {<<NoCutOff, 0>>, <<1, 0>>, <<1, 1>>}}

\* the arguments of a call of fn
CallArgs(fn) ==
    {f @@ p @@ [namespace_id |-> ns, drafts |-> d] :
        f \in WithFilters(fn, MaxFilters), p \in Paginations,
        ns \in ApiNamespaces,
        d \in IF fn = "messages_or_drafts" THEN BOOLEAN ELSE {FALSE}}

\* the deletion engine and the purge are idle
InitQueryIdle ==
    /\ InitJob
    /\ acct = [a \in Accounts |-> DeletedAccount]
    /\ nsrow = [id \in Accounts |-> FALSE]
    /\ rows = InitialRows(acct, 0)
    /\ hb = [a \in Accounts |-> FALSE]
    /\ msgdate = SameDate(rows)
    /\ tw = TwIdle
    /\ rc = RcIdle
    /\ pt = PtIdle

InitQuery ==
    /\ InitQueryIdle
    /\ api = ApiIdle
    /\ bakery = {}

QueryUnchanged ==
    UNCHANGED <<dbvars, snapshot, snapStatus, job, runs, crashedAcct, faults,
                tw, rc, pt>>

\* the call fn(args) on the database db has returned
ApiReturns(fn, db, a, result) ==
    api' = [pc |-> "done", fn |-> fn, db |-> db, args |-> a,
            result |-> result]

CallThreads ==
    /\ api.pc = "off"
    /\ \E db \in MailDbs, a \in CallArgs("threads") :
          \E result \in threads(Database(db), a) :
             ApiReturns("threads", db, a, result)
    /\ UNCHANGED bakery
    /\ QueryUnchanged

CallMessages ==
    /\ api.pc = "off"
    /\ \E db \in MailDbs, a \in CallArgs("messages_or_drafts") :
          /\ \E result \in messages_or_drafts(bakery, Database(db), a) :
                ApiReturns("messages_or_drafts", db, a, result)
          /\ bakery' = BakeryAfter(bakery, a)
    /\ QueryUnchanged

CallFiles ==
    /\ api.pc = "off"
    /\ \E db \in MailDbs, a \in CallArgs("files") :
          \E result \in files(Database(db), a) :
             ApiReturns("files", db, a, result)
    /\ UNCHANGED bakery
    /\ QueryUnchanged

CallMetadata ==
    /\ api.pc = "off"
    /\ \E db \in MailDbs, a \in CallArgs("metadata") :
          \E result \in metadata(Database(db), a) :
             ApiReturns("metadata", db, a, result)
    /\ UNCHANGED bakery
    /\ QueryUnchanged

NextQuery ==
    \/ CallThreads
    \/ CallMessages
    \/ CallFiles
    \/ CallMetadata

SpecQuery == InitQuery /\ [][NextQuery]_vars

(***************************************************************************)
(* Calls of messages_or_drafts that share the bakery                       *)
(***************************************************************************)
\* the number of calls of a process
MaxCalls == 2

\* the filters of these calls: two that are bind parameters only, and the
\* spoiling ones
BakedFilterNames == {"subject", "filename", "from_addr", "in_"}
\* with and without the offset step
BakedPaginations ==
    {[view |-> "count", limit |-> NoCutOff, offset |-> 0],
     [view |-> "ids", limit |-> NoCutOff, offset |-> 0],
     [view |-> "ids", limit |-> 1, offset |-> 1],
     [view |-> "full", limit |-> NoCutOff, offset |-> 0]}
BakedDbs == {<<<<1, 1, 1>>, 3>>, <<<<1, 2, 3>>, 2>>}

BakedArgs ==
    {f @@ p @@ [namespace_id |-> ns, drafts |-> FALSE] :
        f \in FiltersOver(BakedFilterNames, NoFilters("messages_or_drafts"),
                          MaxFilters),
        p \in BakedPaginations, ns \in ApiNamespaces}

InitBaked == InitQuery

\* One call of messages_or_drafts on the database of the process: it runs
\* the query the bakery gives it or its own, and the bakery keeps the query
\* of a call that is not spoiled.  `used` is the entry the call was served
\* from, `stored` whether the call added one.
BakedCall ==
    /\ api.pc \in {"off", "done"}
    /\ api.pc = "done" => api.calls < MaxCalls
    /\ \E db \in BakedDbs, a \in BakedArgs :
          /\ api.pc = "done" => db = api.db
          /\ \E result \in messages_or_drafts(bakery, Database(db), a) :
                api' = [pc |-> "done", fn |-> "messages_or_drafts",
                        db |-> db, args |-> a, result |-> result,
                        used |-> BakedFor(bakery, a),
                        stored |-> BakeryAfter(bakery, a) # bakery,
                        calls |-> IF api.pc = "off" THEN 1
                                  ELSE api.calls + 1]
          /\ bakery' = BakeryAfter(bakery, a)
    /\ QueryUnchanged

NextBaked == BakedCall

SpecBaked == InitBaked /\ [][NextBaked]_vars

(***************************************************************************)
(* recurring_events                                                        *)
(***************************************************************************)
\* The recurring events (templates) of the database: two of namespace 1 with
\* different lengths, a cancelled one, one that ends early and one of
\* namespace 2.  `until` is {} when the recurrence has no end.
RecurringEventRows ==
    {[id |-> 1, namespace_id |-> 1, public_id |-> "e1", start |-> 1,
      until |-> {}, length |-> 1, status |-> "confirmed", busy |-> TRUE,
      source |-> "local"],
     [id |-> 2, namespace_id |-> 1, public_id |-> "e2", start |-> 2,
      until |-> {8}, length |-> 2, status |-> "confirmed", busy |-> FALSE,
      source |-> "local"],
     [id |-> 3, namespace_id |-> 1, public_id |-> "e3", start |-> 1,
      until |-> {}, length |-> 3, status |-> "cancelled", busy |-> TRUE,
      source |-> "local"],
     [id |-> 4, namespace_id |-> 1, public_id |-> "e4", start |-> 1,
      until |-> {2}, length |-> 1, status |-> "confirmed", busy |-> TRUE,
      source |-> "local"],
     [id |-> 5, namespace_id |-> 2, public_id |-> "e5", start |-> 1,
      until |-> {}, length |-> 1, status |-> "confirmed", busy |-> TRUE,
      source |-> "local"]}

\* the bounds of a time window a call gives
EventTimes == {4, 7}

\* filter_event_query with calendar_public_id, title, description and
\* location null: namespace, public id when given, busy, and source
filter_event_query(events_, a) ==
    {e \in events_ :
        /\ e.namespace_id = a.namespace_id
        /\ \A v \in a.event_public_id : e.public_id = v
        /\ \A v \in a.busy : e.busy = v
        /\ e.source = "local"}

\* lines 433-454: the templates the query of recurring_events selects
RecurQuery(a) ==
    {r \in filter_event_query(RecurringEventRows, a) :
        /\ ~a.show_cancelled => r.status # "cancelled"
        /\ \A v \in a.starts_before : r.start < v
        /\ \A v \in a.ends_before : r.start < v
        /\ \A v \in a.starts_after : r.until = {} \/ \E u \in r.until : u > v
        /\ \A v \in a.ends_after : r.until = {} \/ \E u \in r.until : u > v}

RecurringArgs ==
    [namespace_id : ApiNamespaces, event_public_id : {{}, {"e1"}},
     busy : {{}, {TRUE}}, show_cancelled : BOOLEAN,
     starts_before : Opt(EventTimes), starts_after : Opt(EventTimes),
     ends_before : Opt(EventTimes), ends_after : Opt(EventTimes)]

\* lines 427-456: the call builds its query; the loop has the templates of
\* the query before it, in an order the query does not fix
ReStart ==
    /\ api.pc = "off"
    /\ \E a \in RecurringArgs :
          api' = [pc |-> "loop", fn |-> "recurring_events", args |-> a,
                  todo |-> {r.id : r \in RecurQuery(a)},
                  starts_before |-> a.starts_before,
                  starts_after |-> a.starts_after,
                  recur_instances |-> <<>>]
    /\ UNCHANGED bakery
    /\ QueryUnchanged

\* the start-side bound of the loop body: the variable is given the end-side
\* bound minus the length of template r when it is null
Derived(start_side, end_side, r) ==
    IF end_side # {} /\ start_side = {}
    THEN {v - r.length : v \in end_side}
    ELSE start_side

\* lines 458-465: the loop body for the next template r; the instances of r
\* are those of r.all_events(start=starts_after, end=starts_before), recorded
\* as the window they are asked for
ReExpand ==
    /\ api.pc = "loop"
    /\ \E id \in api.todo :
          LET r == RowById(RecurringEventRows, id)
              before == Derived(api.starts_before, api.args.ends_before, r)
              after == Derived(api.starts_after, api.args.ends_after, r)
          IN  api' = [api EXCEPT
                         !.todo = api.todo \ {id},
                         !.starts_before = before,
                         !.starts_after = after,
                         !.recur_instances =
                             Append(api.recur_instances,
                                    [template |-> id, start |-> after,
                                     end |-> before])]
    /\ UNCHANGED bakery
    /\ QueryUnchanged

\* line 467: the loop is over
ReReturn ==
    /\ api.pc = "loop"
    /\ api.todo = {}
    /\ api' = [api EXCEPT !.pc = "done"]
    /\ UNCHANGED bakery
    /\ QueryUnchanged

NextRecurring ==
    \/ ReStart
    \/ ReExpand
    \/ ReReturn

SpecRecurring == InitQuery /\ [][NextRecurring]_vars

(***************************************************************************)
(* events                                                                  *)
(***************************************************************************)
\* the greatest number of instances a template is expanded into
MaxInstances == 2
\* the time between two instances of a template
RecurPeriod == 3

\* the columns of Event every query of events reads
EventColumns(e, end_, discriminator) ==
    [id |-> e.id, namespace_id |-> e.namespace_id, public_id |-> e.public_id,
     start |-> e.start, end |-> end_, status |-> e.status, busy |-> e.busy,
     source |-> e.source, discriminator |-> discriminator]

\* The events that are no templates: two of namespace 1 (one cancelled), one
\* of namespace 2, and a cancelled override of an instance of a template.
PlainEventRows ==
    {EventColumns([id |-> 11, namespace_id |-> 1, public_id |-> "v1",
                   start |-> 2, status |-> "confirmed", busy |-> TRUE,
                   source |-> "local"], 3, "event"),
     EventColumns([id |-> 12, namespace_id |-> 1, public_id |-> "v2",
                   start |-> 5, status |-> "cancelled", busy |-> TRUE,
                   source |-> "local"], 6, "event"),
     EventColumns([id |-> 13, namespace_id |-> 2, public_id |-> "v3",
                   start |-> 2, status |-> "confirmed", busy |-> TRUE,
                   source |-> "local"], 3, "event"),
     EventColumns([id |-> 14, namespace_id |-> 1, public_id |-> "v4",
                   start |-> 4, status |-> "cancelled", busy |-> FALSE,
                   source |-> "local"], 5, "recurringeventoverride")}

\* the event table: the templates are rows of it too
EventRows ==
    PlainEventRows
    \cup {EventColumns(r, r.start + r.length, "recurringevent") :
              r \in RecurringEventRows}

\* RecurringEvent.all_events(start, end): the instances of template r that
\* start after `start` and before `end` (each bound {} when null) and not
\* after `until`; an instance has the public id of its template
all_events(r, start, end_) ==
    {EventColumns([r EXCEPT !.start = r.start + k * RecurPeriod],
                  r.start + k * RecurPeriod + r.length, "inflated") :
        k \in {j \in 0 .. MaxInstances - 1 :
                  /\ \A u \in r.until : r.start + j * RecurPeriod <= u
                  /\ \A v \in start : r.start + j * RecurPeriod >= v
                  /\ \A v \in end_ : r.start + j * RecurPeriod < v}}

\* recurring_events as a function: the lists of windows its loop may ask
\* for, the templates `todo` coming in any order, with the start-side
\* bounds `before` and `after` the loop has reached
RECURSIVE RecurWindows(_, _, _, _)
RecurWindows(todo, before, after, a) ==
    IF todo = {} THEN {<<>>}
    ELSE UNION {LET r == RowById(RecurringEventRows, id)
                    b == Derived(before, a.ends_before, r)
                    f == Derived(after, a.ends_after, r)
                IN  {<<[template |-> id, start |-> f, end |-> b]>> \o rest :
                        rest \in RecurWindows(todo \ {id}, b, f, a)} :
                   id \in todo}

\* the instances of a list of windows, one record for each with its place
InstancesOf(windows) ==
    UNION {{[event |-> e, place |-> i] :
               e \in all_events(RowById(RecurringEventRows,
                                        windows[i].template),
                                windows[i].start, windows[i].end)} :
              i \in 1 .. Len(windows)}

\* lines 487-516: the criteria on the columns of the event
EventCriteria(e, a) ==
    /\ \A v \in a.starts_before : e.start < v
    /\ \A v \in a.starts_after : e.start > v
    /\ \A v \in a.ends_before : e.end < v
    /\ \A v \in a.ends_after : e.end > v
    /\ ~a.show_cancelled =>
          IF a.expand_recurring THEN e.status # "cancelled"
          ELSE \/ e.discriminator = "recurringeventoverride"
               \/ e.status # "cancelled"

\* lines 475-516: the rows the query of events selects
EventQuery(a) ==
    {e \in filter_event_query(EventRows, a) : EventCriteria(e, a)}

\* what a call of events returns: a count, a list, or an exception
EventResult(count, items, raised) ==
    [count |-> count, items |-> items, raised |-> raised]

\* the identifier an event is known by in a result: its public id and start
EventId(e) == <<e.public_id, e.start>>

\* lines 518-533 and 544-547: the stored events that are no templates and no
\* overrides, then the expanded instances, sorted by start (the sort is
\* stable) and cut when `limit` is given; the ids view reads x[0] of an
\* Event object, which raises TypeError
EventsExpanded(a) ==
    UNION {LET stored == {[event |-> e, place |-> 0] :
                             e \in {x \in EventQuery(a) :
                                       x.discriminator = "event"}}
               all == stored \cup InstancesOf(windows)
               keyed == {[key |-> 2 * x.event.start
                                   + (IF x.place = 0 THEN 0 ELSE 1),
                          item |-> EventId(x.event), row |-> x] : x \in all}
           IN  IF a.view = "count"
               THEN {EventResult({Cardinality(all)}, <<>>, FALSE)}
               ELSE {IF a.view = "ids" /\ Paginate(l, a.limit, a.offset) # <<>>
                     THEN EventResult({}, <<>>, TRUE)
                     ELSE EventResult({}, Paginate(l, a.limit, a.offset),
                                      FALSE) : l \in OrderBy(keyed)} :
              windows \in RecurWindows({r.id : r \in RecurQuery(a)},
                                       a.starts_before, a.starts_after, a)}

\* lines 535-547: without expansion the statement counts, or orders by start
\* and paginates
EventsStored(a) ==
    LET keyed == {[key |-> e.start, item |-> EventId(e), row |-> e] :
                     e \in EventQuery(a)}
    IN  IF a.view = "count"
        THEN {EventResult({Cardinality(EventQuery(a))}, <<>>, FALSE)}
        ELSE {EventResult({}, Paginate(l, a.limit, a.offset), FALSE) :
                 l \in OrderBy(keyed)}

events(a) == IF a.expand_recurring THEN EventsExpanded(a) ELSE EventsStored(a)

EventArgs ==
    {r @@ p @@ [expand_recurring |-> x] :
        r \in RecurringArgs, p \in Paginations, x \in BOOLEAN}

CallEvents ==
    /\ api.pc = "off"
    /\ \E a \in EventArgs :
          \E result \in events(a) :
             api' = [pc |-> "done", fn |-> "events", args |-> a,
                     result |-> result]
    /\ UNCHANGED bakery
    /\ QueryUnchanged

NextEvents == CallEvents

SpecEvents == InitQuery /\ [][NextEvents]_vars

(***************************************************************************)
(* The claims                                                              *)
(***************************************************************************)
\* the row count of table t that belongs to account a
RowsOf(a, t) ==
    rows[t][IF t \in NamespaceScoped THEN NamespaceOf(a) ELSE a]

\* everything the deletion engine and the liveness tracker hold of account a
AccountData(a) ==
    <<acct[a], nsrow[NamespaceOf(a)], [t \in RowTables |-> RowsOf(a, t)],
      hb[a], msgdate[NamespaceOf(a)]>>

\* no row of account a is left: its tables, its namespace row, its account row
Clean(a) ==
    /\ ~acct[a].present
    /\ ~nsrow[NamespaceOf(a)]
    /\ \A t \in RowTables : RowsOf(a, t) = 0

\* C1: a pair whose account a complete earlier run has removed is handled
\* without error, removes no row, and every table is still visited (a 0-count
\* batch for each).
C1_SecondRunVisitsEveryTable ==
    \A p \in Procs :
        (job[p].last.done /\ job[p].last.gone) =>
            /\ ~job[p].last.raised
            /\ ~job[p].error
            /\ job[p].last.removed = 0
            /\ Range(BatchNamespaceTables) \cup Range(SingleTables)
                   \subseteq job[p].last.visited

\* C2: once a non-dry-run deletion of an account was interrupted, running the
\* procedure again raises no error, and when it has handled the account no row
\* of it is left.
C2_ResumeCompletes ==
    crashedAcct # 0 =>
        /\ snapStatus # "raised"
        /\ \A p \in Procs :
               (/\ job[p].mode = "dma" /\ ~job[p].dry_run
                /\ job[p].last.done
                /\ job[p].last.account_id = crashedAcct) =>
                   ~job[p].last.raised /\ Clean(crashedAcct)

\* C4: with throttle enabled, the throttle check that precedes an executed
\* delete statement returned false.
C4_DeleteFollowsFalseCheck ==
    \A p \in Procs :
        (job[p].throttle /\ job[p].stmtCheck # "none") =>
            job[p].stmtCheck = "false"

\* C5: when a health check is unreachable or answers with a non-success
\* status, check_throttle returns true.
C5_UnhealthyMeansThrottle ==
    (tw.result # "none" /\ (tw.lag # "200" \/ tw.cpu # "200")) =>
        tw.result = "true"

\* C6: with both health checks succeeding, check_throttle returns true exactly
\* when (hour - start) mod 24 < duration.
C6_WindowIsModularInterval ==
    (tw.result # "none" /\ tw.lag = "200" /\ tw.cpu = "200") =>
        /\ tw.result \in {"true", "false"}
        /\ (tw.result = "true") <=> ((tw.hour - tw.start) % 24 < tw.duration)

\* a window that wraps past midnight, at an hour before midnight
C6_Witness ==
    /\ tw.start = 22 /\ tw.duration = 9 /\ tw.hour = 23
    /\ tw.lag = "200" /\ tw.cpu = "200"
    /\ tw.result = "true"

\* C7: no step of a dry run of delete_marked_accounts changes a table, the
\* namespace or account rows, or the liveness state of an account.
C7_DryRunChangesNothing ==
    [][\A p \in Procs :
          (job[p].mode = "dma" /\ job[p].dry_run /\ job[p].pc # "idle")
              => dbvars' = dbvars]_vars

\* C8: a step of delete_marked_accounts changes the data or the heartbeat of
\* an account only when that account is the pair at hand and the read of this
\* iteration found it present, marked deleted and with sync stopped; and when
\* the call ends every pair of the list has been handled.
C8_OnlyVerifiedPairsAreDeleted ==
    /\ [](\A p \in Procs :
             (job[p].mode = "dma" /\ job[p].pc = "idle")
                 => job[p].processed = Len(job[p].ids))
    /\ [][\A p \in Procs : \A a \in Accounts :
             (job[p].mode = "dma" /\ AccountData(a)' # AccountData(a)) =>
                 /\ job[p].account_id = a
                 /\ job[p].seen.read
                 /\ job[p].seen.present
                 /\ job[p].seen.is_deleted
                 /\ ~job[p].seen.sync_should_run]_vars

\* the first pair was skipped with its account there, the second was deleted
C8_Witness ==
    \E p \in Procs :
        /\ job[p].mode = "dma" /\ job[p].pc = "idle"
        /\ Len(job[p].ids) = 2
        /\ acct[job[p].ids[1][1]].present
        /\ ~Deletable(acct[job[p].ids[1][1]])
        /\ hb[job[p].ids[1][1]]
        /\ Clean(job[p].ids[2][1])
        /\ job[p].deleted_count = 1

\* the pairs of the accounts marked deleted and not scheduled for sync
ExpectedSnapshot ==
    {<<a, NamespaceOf(a)>> :
        a \in {b \in Accounts : /\ acct[b].present
                                /\ acct[b].is_deleted
                                /\ ~acct[b].sync_should_run}}

\* C9: the list get_accounts_to_delete returns holds exactly the pairs of the
\* accounts that are marked deleted and not scheduled for sync (read before
\* any deletion has changed the accounts).
C9_SnapshotIsDeletedAndStopped ==
    (snapStatus = "ok" /\ runs = 0) => Range(snapshot) = ExpectedSnapshot

\* C10: once a table statement of a namespace has failed in a call of
\* delete_marked_accounts, nothing of that namespace changes any more, its
\* namespace row, account row and heartbeat are kept, it is not counted, no
\* exception leaves the call, and every other pair is handled: all pairs are
\* processed, and (without throttling, in a real run) every pair no statement
\* failed for ends deleted.
C10_FailureStopsOneNamespaceOnly ==
    /\ [](\A p \in Procs : \A a \in job[p].failedTable :
             job[p].mode = "dma" =>
                 /\ acct[a].present
                 /\ nsrow[NamespaceOf(a)]
                 /\ hb[a]
                 /\ job[p].deleted_count
                        = Cardinality({b \in Accounts : ~hb[b]})
                 /\ ~job[p].error
                 /\ job[p].pc = "idle" =>
                        /\ job[p].processed = Len(job[p].ids)
                        /\ \A i \in 1 .. Len(job[p].ids) :
                               (/\ job[p].ids[i][1] \notin
                                       job[p].failedTable
                                           \cup job[p].failedOther
                                /\ ~job[p].throttle /\ ~job[p].dry_run)
                                   => Clean(job[p].ids[i][1]))
    /\ [][\A p \in Procs : \A a \in job[p].failedTable :
             job[p].mode = "dma" => AccountData(a)' = AccountData(a)]_vars

\* the first pair failed at a table statement, the second pair was deleted
C10_Witness ==
    \E p \in Procs :
        /\ job[p].mode = "dma" /\ job[p].pc = "idle"
        /\ Len(job[p].ids) = 2
        /\ job[p].ids[1][1] \in job[p].failedTable
        /\ \E t \in RowTables : RowsOf(job[p].ids[1][1], t) > 0
        /\ Clean(job[p].ids[2][1])
        /\ job[p].deleted_count = 1

\* C3: when the synced message carries the key <public_id>-<version> of a
\* message the API created in the same namespace, reconcile_message returns
\* that message only if the synced version is at most the stored version.
C3_MergeOnlyOlderOrEqualVersion ==
    rc.phase = "done" =>
        \A id \in DOMAIN rc.before : \A v \in 1 .. MaxVersion :
            (/\ rc.new.has_uid
             /\ rc.new.inbox_uid
                    = rc.before[id].public_id \o <<"-", DigitChars[v + 1]>>
             /\ rc.before[id].is_created
             /\ rc.before[id].namespace_id = rc.new.namespace_id) =>
                (rc.result = Found(id) => v <= rc.before[id].version)

\* C11: two delete_namespace runs for two different pairs, interleaved in any
\* way: a step changes the data of an account only when it is a step of the
\* run of that account (and a real run), the liveness state is not touched,
\* and when both runs have ended each has raised nothing and a real run has
\* left no row of its own account, as the two runs made one after the other
\* do.
C11_ConcurrentRunsAreIndependent ==
    /\ []((\A p \in Procs : job[p].mode = "direct" /\ job[p].pc = "idle")
            => \A p \in Procs :
                   /\ ~job[p].error
                   /\ ~job[p].dry_run => Clean(job[p].account_id))
    /\ [][\A a \in Accounts :
             AccountData(a)' # AccountData(a) =>
                 /\ \E p \in Procs :
                        /\ job'[p] # job[p]
                        /\ job[p].account_id = a
                        /\ ~job[p].dry_run
                 /\ hb' = hb]_vars

\* both runs are in the middle of their work: one has removed rows and is at
\* a batched statement, the other is at a single-statement table
C11_Witness ==
    /\ job[1].pc = "bd_exec" /\ job[1].removed > CHUNK_SIZE
    /\ job[2].pc = "sd_exec" /\ job[2].removed > CHUNK_SIZE
    /\ ~job[1].dry_run /\ ~job[2].dry_run

\* C12: the messages of a namespace are deleted latest first: a statement
\* that deletes a message leaves no message of that namespace with a later
\* received_date, and at every point of a deletion no message that is left
\* has a received_date later than one already deleted.
C12_MessagesDeletedLatestFirst ==
    /\ [](\A p \in Procs : job[p].mode # "none" =>
             \A d \in Dates : \A e \in job[p].deleted_dates :
                 msgdate[job[p].namespace_id][d] > 0 => d <= e)
    /\ [][\A id \in Accounts : \A d \in Dates : \A e \in Dates :
             (d < e /\ msgdate'[id][d] < msgdate[id][d])
                 => msgdate'[id][e] = 0]_vars

\* the first statement took all the messages of the latest date and a part
\* of those of the date before
C12_Witness ==
    \E p \in Procs :
        /\ job[p].pc = "bd_exec" /\ job[p].bi = 1
        /\ job[p].deleted_dates = {MaxDates - 1, MaxDates}
        /\ msgdate[job[p].namespace_id][MaxDates - 1] > 0
        /\ msgdate[job[p].namespace_id][MaxDates] = 0

\* the tables delete_namespace deletes in batches for account a
BatchedTablesOf(a) ==
    Range(BatchNamespaceTables)
        \cup (IF acct[a].eas THEN Range(EasTables) ELSE Range(ImapTables))
LowVolumeTables == {"category", "calendar", "folder", "label"}

\* C13: the steps of the deletion of one account come in a fixed order: a
\* low-volume table is reached only after every batched table, the namespace
\* row only after the low-volume tables, the account row only after the
\* namespace row, and the heartbeat is cleared only after all of them, by the
\* iteration of that account, and only once; the namespace row is never
\* deleted while a namespace-scoped table still holds a row of the namespace.
C13_StepsInFixedOrder ==
    [][\A p \in Procs :
         LET j == job[p]
             a == j.account_id
             new == job'[p].visited \ j.visited
         IN  (j.mode # "none" /\ a \in Accounts) =>
                 /\ new \cap LowVolumeTables # {}
                        => BatchedTablesOf(a) \subseteq j.visited
                 /\ "namespace" \in new
                        => LowVolumeTables \subseteq j.visited
                 /\ "account" \in new => "namespace" \in j.visited
                 /\ nsrow'[j.namespace_id] # nsrow[j.namespace_id]
                        => \A t \in NamespaceScoped :
                               rows[t][j.namespace_id] = 0
                 /\ (job'[p] # j /\ hb' # hb) =>
                        /\ j.pc = "dma_heartbeat"
                        /\ hb[a]
                        /\ \A b \in Accounts \ {a} : hb'[b] = hb[b]
                        /\ LowVolumeTables \cup {"namespace"}
                               \subseteq j.visited
                        /\ j.dry_run \/ ~acct[a].present]_vars

\* a pair was deleted to the end, rows in batches included, and its heartbeat
\* cleared
C13_Witness ==
    \E p \in Procs :
        /\ job[p].last.done /\ job[p].last.cleared
        /\ ~job[p].dry_run
        /\ job[p].last.removed > CHUNK_SIZE
        /\ "account" \in job[p].last.visited
        /\ Clean(job[p].last.account_id)
        /\ ~hb[job[p].last.account_id]

\* C14: a real run of purge_transactions ends; a statement deletes at most
\* `limit` rows; and when the run has ended without an exception no row
\* older than the cutoff of its last statement is left, and no row deleted
\* was as new as that cutoff or newer.
C14_PurgeTerminatesAtCutoff ==
    /\ <>(pt.pc = "done")
    /\ [](pt.batch <= pt.limit)
    /\ []((pt.pc = "done" /\ ~pt.dry_run /\ ~pt.error) =>
             /\ \A d \in PurgeDays :
                    pt.txn[d] > 0 => d >= pt.start - pt.days_ago
             /\ \A d \in pt.removed_days : d < pt.start - pt.days_ago)

\* a throttled run that took several statements, paused before one of them,
\* and left the newer rows
C14_Witness ==
    /\ pt.pc = "done" /\ ~pt.dry_run /\ ~pt.error /\ pt.throttle
    /\ pt.statements = 2
    /\ Cardinality(pt.removed_days) = 2
    /\ \E d \in PurgeDays : pt.txn[d] > 0

\* the results a single call of fn may return, the bakery being empty
ResultsOf(fn, db, a) ==
    CASE fn = "threads" -> threads(Database(db), a)
      [] fn = "messages_or_drafts" -> messages_or_drafts({}, Database(db), a)
      [] fn = "files" -> files(Database(db), a)
      [] fn = "metadata" -> metadata(Database(db), a)

\* the call is not cut by limit or offset
Unpaginated(a) == a.limit = NoCutOff /\ a.offset = 0

\* C15: monotonic narrowing.  When a call has returned and no pagination cuts
\* its result, the number of results (the count, or the length of the ids or
\* full list) is at most the number the same call returns with any one of its
\* non-null filters taken away.
C15_MonotonicNarrowing ==
    api.pc = "done" /\ Unpaginated(api.args) =>
        \A n \in FilterNames(api.fn) :
           api.args[n] # {} =>
              \A wider \in ResultsOf(api.fn, api.db,
                                      [api.args EXCEPT ![n] = {}]) :
                 SizeOf(api.result) <= SizeOf(wider)

\* the table of the resource a function queries
TableOf(fn, db) ==
    CASE fn = "threads" -> Database(db).thread
      [] fn = "messages_or_drafts" -> Database(db).message
      [] fn = "files" -> Database(db).block
      [] fn = "metadata" -> Database(db).metadata

\* C16: a call with every optional filter null and view=count returns the
\* number of rows of the resource's table that belong to the given namespace,
\* each row counted once.
C16_UnfilteredCountIsTableSize ==
    /\ api.pc = "done"
    /\ api.args.view = "count"
    /\ \A n \in FilterNames(api.fn) : api.args[n] = {}
    => SizeOf(api.result) =
          Cardinality({x \in TableOf(api.fn, api.db) :
                          x.namespace_id = api.args.namespace_id})

\* C17: for threads, with any filters and no pagination cut-off, the count
\* view returns the number of entries of the full view; a thread with three
\* messages in the matched category is counted once and returned once.
C17_ThreadCountEqualsFullLength ==
    /\ api.pc = "done"
    /\ api.fn = "threads"
    /\ api.args.view = "full"
    /\ Unpaginated(api.args)
    => /\ \A counted \in threads(Database(api.db),
                                  [api.args EXCEPT !.view = "count"]) :
             SizeOf(counted) = Len(api.result.items)
       /\ \A i, j \in 1 .. Len(api.result.items) :
             api.result.items[i] = api.result.items[j] => i = j

\* the full view of a category filter that matches the three messages of one
\* thread has returned that thread
C17_Witness ==
    /\ api.pc = "done"
    /\ api.fn = "threads"
    /\ api.args.view = "full"
    /\ Unpaginated(api.args)
    /\ api.args.in_ # {}
    /\ Cardinality({r \in ThreadRowsOf(Database(api.db), api.args) :
                       r.thread = 1}) = 3
    /\ api.result.items = <<"t1">>

\* the categories of the namespace a token stands for
Resolved(db, namespace_id, token) ==
    {c \in Database(db).category :
        /\ c.namespace_id = namespace_id
        /\ \/ c.name = token
           \/ c.display_name = token
           \/ valid_public_id(token) /\ c.public_id = token}

\* the public ids of the members of these categories: the messages in one of
\* them or, for threads, the threads with such a message
Members(fn, db, categories) ==
    LET inside == {m \in Database(db).message :
                      \E mc \in Database(db).messagecategory :
                         /\ mc.message_id = m.id
                         /\ mc.category_id \in {c.id : c \in categories}}
    IN  IF fn = "threads"
        THEN {RowById(Database(db).thread, m.thread_id).public_id :
                 m \in inside}
        ELSE {m.public_id : m \in inside}

\* C18: category resolution for threads and messages.  A call with the token
\* `in_` returns, of what the same call without `in_` returns, the members of
\* every category of the namespace whose name or display name is the token
\* or, when the token has the shape of a public identifier, whose public id
\* is the token; a token of another shape that is no name and no display name
\* gives an empty result.
C18_CategoryResolution ==
    /\ api.pc = "done"
    /\ api.fn \in {"threads", "messages_or_drafts"}
    /\ api.args.view = "full"
    /\ Unpaginated(api.args)
    /\ api.args.in_ # {}
    => \A token \in api.args.in_ :
          LET categories == Resolved(api.db, api.args.namespace_id, token)
              members == Members(api.fn, api.db, categories)
          IN  /\ \A wider \in ResultsOf(api.fn, api.db,
                                         [api.args EXCEPT !.in_ = {}]) :
                    Range(api.result.items) =
                       Range(wider.items) \cap members
              /\ (~valid_public_id(token) /\ categories = {}) =>
                    api.result.items = <<>>

\* a token that is the display name of a category whose name differs has
\* selected the message of that category
C18_Witness ==
    /\ api.pc = "done"
    /\ api.fn = "messages_or_drafts"
    /\ api.args.view = "full"
    /\ Unpaginated(api.args)
    /\ api.args.in_ = {NameToken("b")}
    /\ \A c \in Resolved(api.db, api.args.namespace_id, NameToken("b")) :
          c.name # NameToken("b")
    /\ api.result.items = <<"m1">>

\* C19: plan-cache transparency.  Every call of messages_or_drafts returns
\* what the query built from its own arguments returns; the entry of the
\* bakery it was served from was baked by a call of the same view and the
\* same non-null filters; no entry of the bakery keeps a value of a call;
\* and a call with from_addr, to_addr, cc_addr, bcc_addr, any_email or in_
\* is served from no entry and adds none.
C19_PlanCacheTransparency ==
    api.pc = "done" =>
        /\ api.result \in messages_or_drafts({}, Database(api.db), api.args)
        /\ \A e \in api.used :
              e.view = api.args.view /\ e.filters = NonNull(api.args)
        /\ \A e \in bakery :
              \A i \in 1 .. Len(e.plan) : e.plan[i].literals = BindsOnly
        /\ Spoiled(api.args) => api.used = {} /\ ~api.stored

\* a second call was served from the entry a call with another subject had
\* baked, and returned the message of its own subject
C19_Witness ==
    /\ api.pc = "done"
    /\ api.calls = 2
    /\ api.args.view = "ids"
    /\ api.args.subject = {"s2"}
    /\ \E e \in api.used : e.subject = {"s1"}
    /\ api.result.items = <<"m3">>

\* C20: in recurring_events, when only the end-side bound of a call is given
\* (ends_before without starts_before, ends_after without starts_after), every
\* template is expanded with the end-side bound minus its own length as the
\* start-side bound.
C20_StartBoundFromOwnLength ==
    api.pc \in {"loop", "done"} =>
        \A i \in 1 .. Len(api.recur_instances) :
           LET x == api.recur_instances[i]
               r == RowById(RecurringEventRows, x.template)
           IN  /\ (api.args.ends_before # {} /\ api.args.starts_before = {})
                  => x.end = {v - r.length : v \in api.args.ends_before}
               /\ (api.args.ends_after # {} /\ api.args.starts_after = {})
                  => x.start = {v - r.length : v \in api.args.ends_after}

\* the merges of a call of events: the matching events that are no templates
\* and no overrides, with the instances of one way through the templates
Merges(a) ==
    {{[key |-> x.event.start, item |-> EventId(x.event), row |-> x] :
         x \in {[event |-> e, place |-> 0] :
                   e \in {y \in EventQuery(a) : y.discriminator = "event"}}
               \cup InstancesOf(windows)} :
        windows \in RecurWindows({r.id : r \in RecurQuery(a)},
                                 a.starts_before, a.starts_after, a)}

\* C21: with expand_recurring set, no view of events fails; the count view
\* returns the size of the merge of the matching non-recurring events and the
\* expanded instances, and the ids and full views return the events of the
\* merge sorted by ascending start and cut to [offset, offset + limit).
C21_ExpandedViewsOverMerge ==
    api.pc = "done" /\ api.fn = "events" /\ api.args.expand_recurring =>
        /\ ~api.result.raised
        /\ \E merge \in Merges(api.args) :
              IF api.args.view = "count"
              THEN api.result.count = {Cardinality(merge)}
              ELSE \E l \in OrderBy(merge) :
                      api.result.items =
                         Paginate(l, api.args.limit, api.args.offset)

\* C22: batched deletion is limited by the chunk size.  For a table holding n
\* rows of the namespace _batch_delete plans ceil(n / CHUNK_SIZE) statements,
\* every statement removes at most CHUNK_SIZE rows, and after the last
\* statement of a run that is no dry run the table holds no row of the
\* namespace.
C22_BatchesAreChunkSized ==
    [][\A p \in Procs :
         LET j == job[p]
             f == j.filters[j.fi]
         IN  /\ (j.pc = "bd_count" /\ job'[p].batches # j.batches) =>
                   /\ job'[p].batches * CHUNK_SIZE >= CountRows(f)
                   /\ (job'[p].batches - 1) * CHUNK_SIZE < CountRows(f)
             /\ (j.pc = "bd_exec" /\ job'[p] # j) =>
                   /\ rows[f.table][f.id] - rows'[f.table][f.id]
                         <= CHUNK_SIZE
                   /\ (j.bi + 1 = j.batches /\ ~j.dry_run) =>
                         rows'[f.table][f.id] = 0]_vars

\* the fields of a stored message other than the three header fields
OtherFields(msg) ==
    [f \in DOMAIN msg \ {"headers"} |-> msg[f]]

\* the version a key <public_id>-<version> carries for the stored message
\* `msg`, as a set: empty when the key is not of that form for msg
KeyVersions(uid, msg) ==
    {IntOf(v) : v \in {w \in Strings(MaxUidLen) :
                         IsNumeral(w) /\ uid = msg.public_id \o <<"-">> \o w}}

\* C23: after reconcile_message(new_message, session) with an X-Inbox-Uid
\* has returned the existing message, the three header fields of that
\* message are those of the synced message exactly when the key has no dash
\* (old format) or its version equals the stored version, and otherwise the
\* message is as before; a key with an older version of a created message
\* of the namespace returns that message with the store unchanged; and
\* every message other than the returned one, and every other field of the
\* returned one, is as before the call.
C23_HeadersOverwrittenIffVersionMatches ==
    rc.phase = "done" =>
        /\ DOMAIN rc.store = DOMAIN rc.before
        /\ \A id \in DOMAIN rc.before :
             LET existing == rc.before[id]
                 after == rc.store[id]
                 old_format == \A i \in 1 .. Len(rc.new.inbox_uid) :
                                  rc.new.inbox_uid[i] # "-"
                 versions == KeyVersions(rc.new.inbox_uid, existing)
             IN  /\ rc.result # Found(id) => after = existing
                 /\ OtherFields(after) = OtherFields(existing)
                 /\ (rc.result = Found(id) /\ rc.new.has_uid) =>
                       IF old_format \/ existing.version \in versions
                       THEN after.headers = rc.new.headers
                       ELSE after.headers = existing.headers
                 /\ (/\ rc.new.has_uid
                     /\ existing.is_created
                     /\ existing.namespace_id = rc.new.namespace_id
                     /\ \E v \in versions : v < existing.version) =>
                       /\ rc.result = Found(id)
                       /\ rc.store = rc.before

\* a key <public_id>-<version> with the stored version was reconciled with a
\* created message of a store of two: its headers are now the synced ones,
\* the other message is as it was
C23_Witness ==
    /\ rc.phase = "done"
    /\ Len(rc.before) = 2
    /\ \E id \in DOMAIN rc.before :
         /\ rc.result = Found(id)
         /\ rc.new.has_uid
         /\ rc.before[id].version \in KeyVersions(rc.new.inbox_uid, rc.before[id])
         /\ rc.before[id].headers = StoredHeaders
         /\ rc.store[id].headers = SyncedHeaders
         /\ \A other \in DOMAIN rc.before \ {id} :
              rc.store[other] = rc.before[other]

====
